---- MODULE Spec2Model ----
(***************************************************************************)
(* Orbit / Orbitree generation of CASM (GenericOrbitree<ClustType>).       *)
(*                                                                         *)
(* The crystal is a two-dimensional square lattice with two sublattices:   *)
(* sublattice 0 at the cell corner and sublattice 1 at the cell centre.    *)
(* A site is <<x, y, b>>: unit cell (x, y) and sublattice b.  Cartesian    *)
(* coordinates are kept doubled so that they stay integers, and every      *)
(* length (max_length, min_length, the cutoffs) is kept as its signed      *)
(* square in these doubled units (nearest corner-corner distance = 4,      *)
(* corner-centre distance = 2); a negative length L is kept as -(L*L).     *)
(* Comparisons of lengths are therefore comparisons of integers, and two   *)
(* lengths that are equal within tolerance are equal integers.             *)
(***************************************************************************)
EXTENDS Integers, Sequences, FiniteSets, TLC

\* the members of one GenericOrbitree, the arguments and the locals of the
\* function that runs on it
VARIABLES
  factor_group,        \* prim.factor_group()
  min_num_components,  \* members of the Orbitree set before the call
  max_num_sites,
  max_length,
  min_length,
  tree,                \* the Array of branches
  index,               \* tables of get_index()
  index_to_row,
  index_to_column,
  Norbits,
  pc,                  \* position in generate_orbitree
  np, no, i,           \* its loop counters
  tclust,              \* the cluster being grown
  gridstruc,           \* the candidate sites
  find_arg, find_ret,  \* last find() query and its result
  mode,                \* which generate_orbitree: "radius" or "count"
  maxClust,            \* argument of generate_orbitree(prim, maxClust)
  numClust,            \* locals of generate_orbitree(prim, maxClust)
  maxClustLength,
  ctr,
  subcluster,          \* table of get_hierarchy()
  run,                 \* 1 in the first generate_orbitree of the object, 2 in the second
  first,               \* what the first run returned
  variant,             \* the SymCompare in use
  obj,                 \* the element handed to prepare()
  prepared,            \* the results of prepare(obj), prepare(prepare(obj))
  file,                \* the prototype file: declared count and cluster per entry
  phenom_clust,        \* arguments of generate_local_orbitree
  include_phenom_clust_sites,
  in_tree,             \* argument of generate_hop_orbitree: its prototypes by branch
  sclust,              \* the decorated cluster of generate_hop_orbitree
  nd, perm_no,         \* its counters of decorations and permutations
  big_clust,           \* argument of add_subclusters
  choose,              \* its array of chosen sites
  m_spatial_transform  \* the lattice translation a SymCompare recorded last

\* largest max_num_sites the enumeration is asked for
MaxNumSites == 2

\* largest maxClust the max-cluster-count mode is asked for
MaxClustBound == 2

-----------------------------------------------------------------------------
(* Sequences *)

Range(s) == {s[k] : k \in DOMAIN s}

Max(S) == CHOOSE m \in S : \A n \in S : n <= m

Min(S) == CHOOSE m \in S : \A n \in S : m <= n

\* Array::pop_back
pop_back(s) == SubSeq(s, 1, Len(s) - 1)

\* the subsequence of s at the positions in idx, in increasing position
SubSeqAt(s, idx) ==
  [r \in 1..Cardinality(idx) |->
     s[CHOOSE k \in idx : Cardinality({j \in idx : j < k}) = r - 1]]

-----------------------------------------------------------------------------
(* Lattice, sites and symmetry operations *)

\* doubled Cartesian coordinates of a site
CartX(s) == 2 * s[1] + s[3]

CartY(s) == 2 * s[2] + s[3]

\* Site::dist, as the squared distance in doubled units
dist(s, t) ==
  (CartX(s) - CartX(t)) * (CartX(s) - CartX(t))
  + (CartY(s) - CartY(t)) * (CartY(s) - CartY(t))

\* a SymOp is its linear part <<a, b, c, d>> = [[a, b], [c, d]]; the
\* translation part is a lattice translation and is removed by within()
SymOpApply(op, s) ==
  LET X == op[1] * CartX(s) + op[2] * CartY(s)
      Y == op[3] * CartX(s) + op[4] * CartY(s)
      b == X % 2
  IN <<(X - b) \div 2, (Y - b) \div 2, b>>

Identity == <<1, 0, 0, 1>>

Inversion == <<-1, 0, 0, -1>>

\* the point group of the square, identity first
SquareGroup ==
  << <<1, 0, 0, 1>>, <<0, -1, 1, 0>>, <<-1, 0, 0, -1>>, <<0, 1, -1, 0>>,
     <<1, 0, 0, -1>>, <<-1, 0, 0, 1>>, <<0, 1, 1, 0>>, <<0, -1, -1, 0>> >>

\* Lattice::enclose_sphere: the grid half-width whose cells cover a sphere
\* of the given radius (cell edge = 2 in doubled units)
enclose_sphere(radius) ==
  IF radius <= 0 THEN 0
  ELSE Min({d \in 0..radius : (2 * d) * (2 * d) >= radius})

-----------------------------------------------------------------------------
(* Cluster *)

SiteLess(s, t) ==
  \/ s[1] < t[1]
  \/ s[1] = t[1] /\ s[2] < t[2]
  \/ s[1] = t[1] /\ s[2] = t[2] /\ s[3] < t[3]

Translate(clust, dx, dy) ==
  [k \in DOMAIN clust |-> <<clust[k][1] + dx, clust[k][2] + dy, clust[k][3]>>]

\* Cluster::within: the periodic image whose first site is in the origin
\* cell; the order of the sites is kept
within(clust) ==
  IF clust = <<>> THEN clust
  ELSE Translate(clust, -clust[1][1], -clust[1][2])

\* SymOp * Cluster
copy_apply(op, clust) == [k \in DOMAIN clust |-> SymOpApply(op, clust[k])]

\* Cluster::calc_properties / max_length(): longest pairwise distance
max_length_of(clust) ==
  IF Len(clust) < 2 THEN 0
  ELSE Max({dist(clust[j], clust[k]) : j, k \in DOMAIN clust})

\* Cluster::calc_properties / min_length(): shortest pairwise distance
min_length_of(clust) ==
  IF Len(clust) < 2 THEN 0
  ELSE Min({dist(clust[p[1]], clust[p[2]]) :
              p \in {q \in (DOMAIN clust) \X (DOMAIN clust) : q[1] # q[2]}})

\* representation_prepare: the sites in canonical (sorted) order; sites
\* that are in order already stay as they are
representation_prepare(clust) ==
  LET rank(k) == Cardinality({j \in DOMAIN clust :
                    \/ SiteLess(clust[j], clust[k])
                    \/ ~SiteLess(clust[k], clust[j]) /\ j < k}) + 1
      ranked == {<<rank(k), k>> : k \in DOMAIN clust}
  IN IF \A k \in 1..(Len(clust) - 1) : ~SiteLess(clust[k + 1], clust[k])
     THEN clust
     ELSE [r \in DOMAIN clust |-> clust[(CHOOSE p \in ranked : p[1] = r)[2]]]

\* spatial_prepare (prim-periodic): translate so that the canonical site
\* lies in unit cell 0
spatial_prepare(clust) ==
  IF clust = <<>> THEN clust
  ELSE LET anchor == CHOOSE s \in Range(clust) :
                       \A t \in Range(clust) : ~SiteLess(t, s)
       IN Translate(clust, -anchor[1], -anchor[2])

prepare(clust) == representation_prepare(spatial_prepare(clust))

\* compare_impl: A < B on prepared clusters (size, then site by site)
compare_impl(A, B) ==
  \/ Len(A) < Len(B)
  \/ /\ Len(A) = Len(B)
     /\ \E k \in DOMAIN A :
          /\ SiteLess(A[k], B[k])
          /\ \A j \in 1..(k - 1) : A[j] = B[j]

\* equivalence of two clusters under lattice translation and site order
is_equivalent(A, B) ==
  LET pA == prepare(A)
      pB == prepare(B)
  IN ~compare_impl(pA, pB) /\ ~compare_impl(pB, pA)

-----------------------------------------------------------------------------
(* GenericOrbit *)

\* GenericOrbit(const ClustType &): an orbit holding only its prototype
GenericOrbit(clust) ==
  [prototype |-> clust, equivalents |-> <<>>, sym_group |-> <<>>,
   clust_group |-> <<>>, index |-> -1]

\* GenericOrbit::get_equivalent: the prepared images of the prototype under
\* every operation of the group, one per distinct image in the order of the
\* first operation that produces it; the prototype becomes the smallest one
get_equivalent(orb, group) ==
  LET images == [k \in DOMAIN group |-> prepare(copy_apply(group[k], orb.prototype))]
      firsts == {k \in DOMAIN images : \A j \in 1..(k - 1) : images[j] # images[k]}
      equivs == SubSeqAt(images, firsts)
      proto  == IF equivs = <<>> THEN orb.prototype
                ELSE CHOOSE e \in Range(equivs) :
                       \A f \in Range(equivs) : ~compare_impl(f, e)
  IN [orb EXCEPT !.equivalents = equivs, !.prototype = proto, !.sym_group = group]

\* GenericOrbit::get_cluster_symmetry: the operations of the acting group
\* that map the prototype onto itself
get_cluster_symmetry(orb) ==
  LET stab == {k \in DOMAIN orb.sym_group :
                 is_equivalent(copy_apply(orb.sym_group[k], orb.prototype),
                               orb.prototype)}
  IN [orb EXCEPT !.clust_group = SubSeqAt(orb.sym_group, stab)]

\* GenericOrbit::contains: test_clust is equivalent to one of the (prepared)
\* equivalents
orbit_contains(orb, test_clust) ==
  LET pT == prepare(test_clust)
  IN \E e \in Range(orb.equivalents) : ~compare_impl(e, pT) /\ ~compare_impl(pT, e)

\* order of the orbits of a branch: max_length, then compare_impl
OrbitLess(a, b) ==
  \/ max_length_of(a.prototype) < max_length_of(b.prototype)
  \/ /\ max_length_of(a.prototype) = max_length_of(b.prototype)
     /\ compare_impl(a.prototype, b.prototype)

-----------------------------------------------------------------------------
(* GenericOrbitBranch and GenericOrbitree; branch np is tree[np + 1] *)

\* GenericOrbitBranch::num_sites: the number of sites of its prototypes
num_sites(branch) == IF branch = <<>> THEN -1 ELSE Len(branch[1].prototype)

\* GenericOrbitBranch::sort
branch_sort(branch) ==
  LET rank(k) == Cardinality({j \in DOMAIN branch :
                    \/ OrbitLess(branch[j], branch[k])
                    \/ ~OrbitLess(branch[k], branch[j]) /\ j < k}) + 1
      ranked == {<<rank(k), k>> : k \in DOMAIN branch}
  IN [r \in DOMAIN branch |-> branch[(CHOOSE p \in ranked : p[1] = r)[2]]]

\* GenericOrbitree::size(np)
size_np(t, n) == Len(t[n + 1])

\* number of orbits in branches 0..nb-1
OrbitsBefore(t, nb) ==
  LET f[k \in 0..nb] == IF k = 0 THEN 0 ELSE f[k - 1] + Len(t[k])
  IN f[nb]

\* GenericOrbitree::resize(np)
resize(t, n) == [k \in 1..n |-> IF k <= Len(t) THEN t[k] ELSE <<>>]

\* at(np).push_back(orbit)
branch_push_back(t, n, orb) == [t EXCEPT ![n + 1] = Append(@, orb)]

\* GenericOrbitree::sort()
tree_sort(t) == [k \in DOMAIN t |-> branch_sort(t[k])]

MaxOrbitsOf(t) == Max({Len(t[b]) : b \in DOMAIN t} \cup {0})

\* find() that counts only the branches of the cluster's size
find_counting_matching_branches(t, test_clust) ==
  LET hits == {p \in {<<b, j>> : b \in DOMAIN t, j \in 1..MaxOrbitsOf(t)} :
                 /\ p[2] <= Len(t[p[1]])
                 /\ num_sites(t[p[1]]) = Len(test_clust)
                 /\ orbit_contains(t[p[1]][p[2]], test_clust)}
      matching == {b \in DOMAIN t : num_sites(t[b]) = Len(test_clust)}
  IN IF hits = {} THEN OrbitsBefore([b \in DOMAIN t |-> IF b \in matching THEN t[b] ELSE <<>>], Len(t))
     ELSE LET h == CHOOSE p \in hits : \A q \in hits :
                     p[1] < q[1] \/ (p[1] = q[1] /\ p[2] <= q[2])
          IN OrbitsBefore([b \in DOMAIN t |-> IF b \in matching THEN t[b] ELSE <<>>], h[1] - 1)
             + (h[2] - 1)

\* GenericOrbitree::find(const ClustType &)
find(t, test_clust) ==
  LET hits == {p \in {<<b, j>> : b \in DOMAIN t, j \in 1..MaxOrbitsOf(t)} :
                 /\ p[2] <= Len(t[p[1]])
                 /\ num_sites(t[p[1]]) = Len(test_clust)
                 /\ orbit_contains(t[p[1]][p[2]], test_clust)}
  IN IF hits = {} THEN OrbitsBefore(t, Len(t))
     ELSE LET h == CHOOSE p \in hits : \A q \in hits :
                     p[1] < q[1] \/ (p[1] = q[1] /\ p[2] <= q[2])
          IN OrbitsBefore(t, h[1] - 1) + (h[2] - 1)

\* GenericOrbitree::find(const GenericOrbit &), lines 309-330: ind grows by
\* size(i) inside the test of the branch's num_sites only; two orbits are
\* equal when one holds the prototype of the other
find_orbit(t, test_orbit) ==
  LET matching == {b \in DOMAIN t : num_sites(t[b]) = Len(test_orbit.prototype)}
      counted(nb) == OrbitsBefore([b \in DOMAIN t |->
                                    IF b \in matching THEN t[b] ELSE <<>>], nb)
      hits == {p \in {<<b, j>> : b \in matching, j \in 1..MaxOrbitsOf(t)} :
                 /\ p[2] <= Len(t[p[1]])
                 /\ orbit_contains(t[p[1]][p[2]], test_orbit.prototype)}
  IN IF hits = {} THEN counted(Len(t))
     ELSE LET h == CHOOSE p \in hits : \A q \in hits :
                     p[1] < q[1] \/ (p[1] = q[1] /\ p[2] <= q[2])
          IN counted(h[1] - 1) + (h[2] - 1)

\* GenericOrbitree::find(const ClustType &, Index nb)
find_in_branch(t, test_clust, nb) ==
  LET hits == {j \in DOMAIN t[nb + 1] : orbit_contains(t[nb + 1][j], test_clust)}
  IN IF hits = {} THEN Len(t[nb + 1]) ELSE Min(hits) - 1

\* contains() with the bound of the comparison off by one
contains_off_by_one(t, test_clust) ==
  \E b \in 0..(Len(t) - 1) : find_in_branch(t, test_clust, b) <= Len(t[b + 1])

\* GenericOrbitree::contains
contains(t, test_clust) ==
  \E b \in 0..(Len(t) - 1) : find_in_branch(t, test_clust, b) < Len(t[b + 1])

\* get_index() that counts before it stores (the numbering from 1)
get_index_count_first(t) ==
  LET total == OrbitsBefore(t, Len(t))
      row(k) == CHOOSE b \in DOMAIN t :
                  OrbitsBefore(t, b - 1) <= k /\ k < OrbitsBefore(t, b)
  IN [tree |-> [b \in DOMAIN t |-> [j \in DOMAIN t[b] |->
                  [t[b][j] EXCEPT !.index = OrbitsBefore(t, b - 1) + j]]],
      index |-> [b \in DOMAIN t |-> [j \in DOMAIN t[b] |->
                  OrbitsBefore(t, b - 1) + j]],
      index_to_row |-> [k \in 1..total |-> row(k - 1) - 1],
      index_to_column |-> [k \in 1..total |->
                  (k - 1) - OrbitsBefore(t, row(k - 1) - 1)],
      Norbits |-> total]

\* get_index() without lines 367-369: the new rows are appended to the
\* tables the object already holds
get_index_keeping_tables(t) ==
  LET total == OrbitsBefore(t, Len(t))
      row(k) == CHOOSE b \in DOMAIN t :
                  OrbitsBefore(t, b - 1) <= k /\ k < OrbitsBefore(t, b)
  IN [tree |-> [b \in DOMAIN t |-> [j \in DOMAIN t[b] |->
                  [t[b][j] EXCEPT !.index = OrbitsBefore(t, b - 1) + (j - 1)]]],
      index |-> [b \in DOMAIN t |-> [j \in DOMAIN t[b] |->
                  OrbitsBefore(t, b - 1) + (j - 1)]],
      index_to_row |-> index_to_row \o [k \in 1..total |-> row(k - 1) - 1],
      index_to_column |-> index_to_column \o [k \in 1..total |->
                  (k - 1) - OrbitsBefore(t, row(k - 1) - 1)],
      Norbits |-> total]

\* GenericOrbitree::get_index: the tables and the orbits' stored indices
get_index(t) ==
  LET total == OrbitsBefore(t, Len(t))
      row(k) == CHOOSE b \in DOMAIN t :
                  OrbitsBefore(t, b - 1) <= k /\ k < OrbitsBefore(t, b)
  IN [tree |-> [b \in DOMAIN t |-> [j \in DOMAIN t[b] |->
                  [t[b][j] EXCEPT !.index = OrbitsBefore(t, b - 1) + (j - 1)]]],
      index |-> [b \in DOMAIN t |-> [j \in DOMAIN t[b] |->
                  OrbitsBefore(t, b - 1) + (j - 1)]],
      index_to_row |-> [k \in 1..total |-> row(k - 1) - 1],
      index_to_column |-> [k \in 1..total |->
                  (k - 1) - OrbitsBefore(t, row(k - 1) - 1)],
      Norbits |-> total]

-----------------------------------------------------------------------------
(* The primitive structure and the enumeration parameters *)

\* prim.basis[k].site_occupant().size(); basis site k is sublattice k - 1
PrimOccupants == <<2, 1>>

\* max_length[np]
MaxLengthAt(ml, n) == ml[n + 1]

\* the basis sites that take part (lines 436-441)
participating_basis(mnc) ==
  SelectSeq(<<0, 1>>, LAMBDA b : PrimOccupants[b + 1] >= mnc)

\* the candidate grid (lines 443-466): every site of the cells -dim..dim
\* closer than max_radius to a basis site of the origin cell
build_gridstruc(basis, max_radius) ==
  LET dim == enclose_sphere(max_radius)
      w   == 2 * dim + 1
      nb  == Len(basis)
      all == [e \in 1..(w * w * nb) |->
                <<((((e - 1) \div nb) % w) - dim),
                  ((((e - 1) \div nb) \div w) - dim),
                  basis[((e - 1) % nb) + 1]>>]
  IN SelectSeq(all, LAMBDA tatom :
       \E j \in DOMAIN basis : dist(tatom, <<0, 0, basis[j]>>) < max_radius)

\* the acceptance test with the cutoff made inclusive
accepts_inclusive(t, n, clust, ml, minl) ==
  \/ n = 1 /\ ~contains(t, clust)
  \/ /\ max_length_of(clust) <= MaxLengthAt(ml, n)
     /\ min_length_of(clust) > minl
     /\ ~contains(t, clust)

\* the acceptance test without the membership test for clusters of 2+ sites
accepts_without_contains(t, n, clust, ml, minl) ==
  \/ n = 1 /\ ~contains(t, clust)
  \/ /\ max_length_of(clust) < MaxLengthAt(ml, n)
     /\ min_length_of(clust) > minl

\* lines 519 and 525: the test that lets tclust start a new orbit
\* the acceptance test without the comparison with min_length
accepts_without_min_length(t, n, clust, ml, minl) ==
  \/ n = 1 /\ ~contains(t, clust)
  \/ /\ max_length_of(clust) < MaxLengthAt(ml, n)
     /\ ~contains(t, clust)

accepts(t, n, clust, ml, minl) ==
  \/ n = 1 /\ ~contains(t, clust)
  \/ /\ max_length_of(clust) < MaxLengthAt(ml, n)
     /\ min_length_of(clust) > minl
     /\ ~contains(t, clust)

\* the new orbit without the call of get_cluster_symmetry
new_orbit_no_symmetry(clust, group) ==
  get_equivalent(GenericOrbit(clust), group)

\* lines 520-522: the orbit of tclust under the factor group
new_orbit(clust, group) ==
  get_cluster_symmetry(get_equivalent(GenericOrbit(clust), group))

\* the orbit of the empty cluster without the call of get_equivalent
empty_cluster_orbit_no_equivalents(group) ==
  get_cluster_symmetry(GenericOrbit(<<>>))

\* lines 477-480: the orbit of the empty cluster
empty_cluster_orbit(group) ==
  get_cluster_symmetry(get_equivalent(GenericOrbit(<<>>), group))

\* the check of the previous branch left out
unable_to_enumerate_unchecked(t, n) == FALSE

\* line 494: the previous branch is empty
unable_to_enumerate(t, n) == size_np(t, n - 1) = 0

-----------------------------------------------------------------------------
(* generate_orbitree(prim) as a state machine *)

inputs == <<factor_group, min_num_components, max_num_sites, min_length, mode, maxClust>>

tables == <<index, index_to_row, index_to_column, Norbits>>

locals == <<np, no, i, tclust, gridstruc>>

count_locals == <<numClust, maxClustLength, ctr>>

query == <<find_arg, find_ret>>

\* what the other members of the Orbitree hold
compare_vars == <<variant, obj, prepared, m_spatial_transform>>

aux == <<file, phenom_clust, include_phenom_clust_sites, <<in_tree, sclust, nd, perm_no>>, <<big_clust, choose>>>>

ext == <<subcluster, run, first, compare_vars, aux>>

\* no SymCompare is exercised
NoPrepare ==
  variant = "none" /\ obj = <<>> /\ prepared = <<>> /\ m_spatial_transform = <<0, 0>>

\* no argument of another entry point is set
NoFile == file = <<>>

NoPhenom == phenom_clust = <<>> /\ include_phenom_clust_sites = FALSE

NoHop == in_tree = <<>> /\ sclust = <<>> /\ nd = 0 /\ perm_no = 0

NoSub == big_clust = <<>> /\ choose = <<>>

NoAux == NoFile /\ NoPhenom /\ NoHop /\ NoSub

vars == <<inputs, max_length, tree, tables, pc, locals, count_locals, query, ext>>

\* find_arg before any query: not a cluster of the lattice
NoCluster == <<<<0, 0, 2>>>>

\* the radius mode is started with any radii; the count mode takes no radii
\* (max_length holds zeros) and is followed for a prim with at least one
\* participating basis site, which its cell-size estimate divides by
Init ==
  /\ factor_group \in {<<>>, <<Identity>>, <<Identity, Inversion>>, SquareGroup}
  /\ max_num_sites \in 0..MaxNumSites
  /\ min_length \in {-1, 0, 2, 4}
  /\ mode \in {"radius", "count"}
  /\ IF mode = "radius"
     THEN /\ min_num_components \in 1..3
          /\ max_length \in {ml \in [1..(max_num_sites + 1) -> {0, 4, 5}] : ml[1] = 0}
          /\ maxClust = 0
          /\ maxClustLength = 0
     ELSE /\ factor_group \in {<<>>, <<Identity, Inversion>>, SquareGroup}
          /\ min_length \in {-1, 4}
          /\ min_num_components \in 1..2
          /\ max_length = [n \in 1..(max_num_sites + 1) |-> 0]
          /\ maxClust \in 1..MaxClustBound
          /\ maxClustLength \in {0, 5}
  /\ numClust = 0 /\ ctr = 0
  /\ tree = <<>>
  /\ index = <<>> /\ index_to_row = <<>> /\ index_to_column = <<>> /\ Norbits = 0
  /\ pc = "start"
  /\ np = 0 /\ no = 0 /\ i = 0 /\ tclust = <<>> /\ gridstruc = <<>>
  /\ find_arg = NoCluster /\ find_ret = -1
  /\ subcluster = <<>>
  /\ run = 1 /\ first = <<>>
  /\ NoPrepare /\ NoAux

SetTables(r) ==
  /\ tree' = r.tree
  /\ index' = r.index
  /\ index_to_row' = r.index_to_row
  /\ index_to_column' = r.index_to_column
  /\ Norbits' = r.Norbits

\* lines 417-480: the factor-group check, the grid, resize and the orbit of
\* the empty cluster
Begin ==
  /\ pc = "start"
  /\ mode = "radius"
  /\ IF Len(factor_group) = 0
     THEN /\ pc' = "aborted"
          /\ UNCHANGED <<tree, locals>>
     ELSE /\ gridstruc' = build_gridstruc(participating_basis(min_num_components),
                                          Max(Range(max_length)))
          /\ tree' = branch_push_back(resize(tree, max_num_sites + 1), 0,
                                      empty_cluster_orbit(factor_group))
          /\ np' = 1
          /\ pc' = "branch"
          /\ UNCHANGED <<no, i, tclust>>
  /\ UNCHANGED <<inputs, max_length, count_locals, tables, query, ext>>

\* lines 490-499: head of the loop over np
BranchHead ==
  /\ pc = "branch"
  /\ np <= max_num_sites
  /\ IF unable_to_enumerate(tree, np)
     THEN /\ SetTables(get_index(tree))
          /\ pc' = "fatal"
          /\ UNCHANGED no
     ELSE /\ no' = 0
          /\ pc' = "orbit"
          /\ UNCHANGED <<tree, tables>>
  /\ UNCHANGED <<inputs, max_length, count_locals, np, i, tclust, gridstruc, query, ext>>

\* lines 501-507: head of the loop over the orbits of branch np - 1
OrbitHead ==
  /\ pc = "orbit"
  /\ IF no < size_np(tree, np - 1)
     THEN /\ tclust' = tree[np][no + 1].prototype
          /\ i' = 0
          /\ pc' = "site"
          /\ UNCHANGED np
     ELSE /\ np' = np + 1
          /\ pc' = "branch"
          /\ UNCHANGED <<i, tclust>>
  /\ UNCHANGED <<inputs, max_length, count_locals, tree, tables, no, gridstruc, query, ext>>

\* the candidate of the current iteration: push_back, within
Candidate == within(Append(tclust, gridstruc[i + 1]))

\* lines 509-533: one grid site
TryCandidate ==
  /\ pc = "site"
  /\ i < Len(gridstruc)
  /\ tree' = IF accepts(tree, np, Candidate, max_length, min_length)
             THEN branch_push_back(tree, np, new_orbit(Candidate, factor_group))
             ELSE tree
  /\ tclust' = pop_back(Candidate)
  /\ i' = i + 1
  /\ UNCHANGED <<inputs, max_length, count_locals, tables, pc, np, no, gridstruc, query, ext>>

\* line 509: the grid is exhausted
NextOrbit ==
  /\ pc = "site"
  /\ i >= Len(gridstruc)
  /\ no' = no + 1
  /\ pc' = "orbit"
  /\ UNCHANGED <<inputs, max_length, count_locals, tree, tables, np, i, tclust, gridstruc, query, ext>>

\* lines 537-541: sort(), get_index(), return
Finish ==
  /\ pc = "branch"
  /\ np > max_num_sites
  /\ SetTables(get_index(tree_sort(tree)))
  /\ pc' = "done"
  /\ UNCHANGED <<inputs, max_length, count_locals, locals, query, ext>>

-----------------------------------------------------------------------------
(* generate_orbitree(prim, maxClust): the max-cluster-count mode *)

\* line 583: ceil(cbrt((maxClust - nb(nb-1)/2) / (nb(2nb-1)) + 1)), the
\* smallest c whose cube reaches the estimate
cell_size(maxC, nb) ==
  Min({c \in 1..(maxC + 1) :
         (c * c * c - 1) * 2 * nb * (2 * nb - 1) >= 2 * maxC - nb * (nb - 1)})

\* lines 586 and 665: cells * prim.lattice().lengths.min(), as a length
count_radius(cells) == (2 * cells) * (2 * cells)

\* Lattice::gridstruc_build: the sites of the cells -dim..dim whose distance
\* to the closest basis site of the origin cell is in [min_radius, max_radius)
gridstruc_build(max_radius, min_radius, basis) ==
  LET dim == enclose_sphere(max_radius)
      w   == 2 * dim + 1
      nb  == Len(basis)
      all == [e \in 1..(w * w * nb) |->
                <<((((e - 1) \div nb) % w) - dim),
                  ((((e - 1) \div nb) \div w) - dim),
                  basis[((e - 1) % nb) + 1]>>]
      min_dist(tatom) == Min({dist(tatom, <<0, 0, basis[j]>>) : j \in DOMAIN basis})
  IN SelectSeq(all, LAMBDA tatom :
       min_dist(tatom) >= min_radius /\ min_dist(tatom) < max_radius)

\* line 646: the test that lets a pair start a new orbit
accepts_pair(t, clust, minl) ==
  min_length_of(clust) > minl /\ ~contains(t, clust)

\* the cut with the orbits at the cutoff length dropped as well
truncate_pairs_dropping_ties(branch, maxC) ==
  LET cutOff == max_length_of(branch[maxC].prototype)
  IN SubSeqAt(branch, {k \in DOMAIN branch :
        k <= maxC \/ max_length_of(branch[k].prototype) < cutOff})

\* lines 678-686: of the sorted pair branch keep the first maxClust orbits
\* and every later one that is not longer than the maxClust-th
truncate_pairs(branch, maxC) ==
  LET cutOff == max_length_of(branch[maxC].prototype)
  IN SubSeqAt(branch, {k \in DOMAIN branch :
        k <= maxC \/ ~(max_length_of(branch[k].prototype) > cutOff)})

\* lines 561-606: the basis, the first grid, resize and the orbit of the
\* empty cluster; the factor group is not examined
CountBegin ==
  /\ pc = "start"
  /\ mode = "count"
  /\ LET basis == participating_basis(min_num_components)
         cellSize == cell_size(maxClust, Len(basis))
     IN gridstruc' = gridstruc_build(count_radius(cellSize), 0, basis)
  /\ ctr' = 0
  /\ tree' = branch_push_back(resize(tree, max_num_sites + 1), 0,
                              new_orbit(<<>>, factor_group))
  /\ np' = 1
  /\ pc' = "c_branch"
  /\ UNCHANGED <<inputs, max_length, tables, no, i, tclust, numClust,
                 maxClustLength, query, ext>>

\* lines 616-629 and 691: head of the loop over np
CountBranchHead ==
  /\ pc = "c_branch"
  /\ np <= max_num_sites
  /\ IF unable_to_enumerate(tree, np)
     THEN /\ SetTables(get_index(tree))
          /\ pc' = "fatal"
          /\ UNCHANGED <<no, i, max_length, numClust, maxClustLength>>
     ELSE IF np = 2
     THEN /\ maxClustLength' = 0
          /\ i' = 0
          /\ numClust' = 0
          /\ no' = 0
          /\ pc' = "c_pair_orbit"
          /\ UNCHANGED <<tree, tables, max_length>>
     ELSE /\ max_length' = [max_length EXCEPT ![np + 1] = maxClustLength]
          /\ no' = 0
          /\ pc' = "c_orbit"
          /\ UNCHANGED <<tree, tables, i, numClust, maxClustLength>>
  /\ UNCHANGED <<inputs, np, tclust, gridstruc, ctr, query, ext>>

\* lines 631-636: head of the loop over the point orbits; i is not reset
CountPairOrbitHead ==
  /\ pc = "c_pair_orbit"
  /\ no < size_np(tree, np - 1)
  /\ tclust' = tree[np][no + 1].prototype
  /\ pc' = "c_pair_site"
  /\ UNCHANGED <<inputs, max_length, tree, tables, np, no, i, gridstruc,
                 count_locals, query, ext>>

\* lines 638-658: one grid site in the pair loop
CountPairCandidate ==
  /\ pc = "c_pair_site"
  /\ i < Len(gridstruc)
  /\ IF accepts_pair(tree, Candidate, min_length)
     THEN /\ tree' = branch_push_back(tree, np, new_orbit(Candidate, factor_group))
          /\ numClust' = numClust + 1
          /\ maxClustLength' = IF maxClustLength < max_length_of(Candidate)
                               THEN max_length_of(Candidate)
                               ELSE maxClustLength
     ELSE UNCHANGED <<tree, numClust, maxClustLength>>
  /\ tclust' = pop_back(Candidate)
  /\ i' = i + 1
  /\ UNCHANGED <<inputs, max_length, tables, pc, np, no, gridstruc, ctr, query, ext>>

\* line 638: no grid site is left for this point orbit
CountPairNextOrbit ==
  /\ pc = "c_pair_site"
  /\ i >= Len(gridstruc)
  /\ no' = no + 1
  /\ pc' = "c_pair_orbit"
  /\ UNCHANGED <<inputs, max_length, tree, tables, np, i, tclust, gridstruc,
                 count_locals, query, ext>>

\* lines 660-674: too few pairs, so a shell is added to the grid and the
\* loop over the point orbits runs again
CountEnlargeGrid ==
  /\ pc = "c_pair_orbit"
  /\ no >= size_np(tree, np - 1)
  /\ numClust < maxClust
  /\ LET basis == participating_basis(min_num_components)
         cellSize == cell_size(maxClust, Len(basis))
     IN gridstruc' = gridstruc \o gridstruc_build(count_radius(cellSize + ctr + 1),
                                                  count_radius(cellSize + ctr), basis)
  /\ ctr' = ctr + 1
  /\ no' = 0
  /\ UNCHANGED <<inputs, max_length, tree, tables, pc, np, i, tclust, numClust,
                 maxClustLength, query, ext>>

\* lines 674-688: enough pairs: sort(np), drop the pairs longer than the
\* maxClust-th, continue with np = 3
CountTruncate ==
  /\ pc = "c_pair_orbit"
  /\ no >= size_np(tree, np - 1)
  /\ ~(numClust < maxClust)
  /\ tree' = [tree EXCEPT ![np + 1] = truncate_pairs(branch_sort(@), maxClust)]
  /\ i' = Len(tree'[np + 1])
  /\ np' = np + 1
  /\ pc' = "c_branch"
  /\ UNCHANGED <<inputs, max_length, tables, no, tclust, gridstruc,
                 count_locals, query, ext>>

\* lines 692-697: head of the loop over the orbits of branch np - 1
CountOrbitHead ==
  /\ pc = "c_orbit"
  /\ IF no < size_np(tree, np - 1)
     THEN /\ tclust' = tree[np][no + 1].prototype
          /\ i' = 0
          /\ pc' = "c_site"
          /\ UNCHANGED np
     ELSE /\ np' = np + 1
          /\ pc' = "c_branch"
          /\ UNCHANGED <<i, tclust>>
  /\ UNCHANGED <<inputs, max_length, tree, tables, no, gridstruc, count_locals, query, ext>>

\* lines 699-738: one grid site
CountTryCandidate ==
  /\ pc = "c_site"
  /\ i < Len(gridstruc)
  /\ tree' = IF accepts(tree, np, Candidate, max_length, min_length)
             THEN branch_push_back(tree, np, new_orbit(Candidate, factor_group))
             ELSE tree
  /\ tclust' = pop_back(Candidate)
  /\ i' = i + 1
  /\ UNCHANGED <<inputs, max_length, tables, pc, np, no, gridstruc, count_locals, query, ext>>

\* line 699: the grid is exhausted
CountNextOrbit ==
  /\ pc = "c_site"
  /\ i >= Len(gridstruc)
  /\ no' = no + 1
  /\ pc' = "c_orbit"
  /\ UNCHANGED <<inputs, max_length, tree, tables, np, i, tclust, gridstruc,
                 count_locals, query, ext>>

\* lines 741-743: sort(), get_index(), return
CountFinish ==
  /\ pc = "c_branch"
  /\ np > max_num_sites
  /\ SetTables(get_index(tree_sort(tree)))
  /\ pc' = "done"
  /\ UNCHANGED <<inputs, max_length, locals, count_locals, query, ext>>

-----------------------------------------------------------------------------
(* get_hierarchy() *)

\* Counter<Array<int> >(min, max, inc) over 0/1 digits, first digit fastest:
\* the sites of proto its j-th value selects
mask_sites(proto, j) ==
  SubSeqAt(proto, {d \in DOMAIN proto : (j \div (2 ^ (d - 1))) % 2 = 1})

\* lines 1456-1469: the counter values 1 .. 2^k - 2; tclust is declared
\* before the loop (line 1447) and is never cleared, so every value appends
\* its sites to what the earlier values left
RECURSIVE subclusters_of(_, _, _, _)
subclusters_of(t, proto, j, grown) ==
  IF j > 2 ^ Len(proto) - 2 THEN <<>>
  ELSE LET now == grown \o mask_sites(proto, j)
       IN <<find(t, now)>> \o subclusters_of(t, proto, j + 1, now)

\* lines 1432-1473: one empty table for the empty cluster, then one table
\* per orbit of the branches 1 .. size() - 1, in branch-major order
get_hierarchy(t) ==
  LET r  == get_index(t)
      n0 == IF Len(t) = 0 THEN 0 ELSE size_np(t, 0)
  IN <<<<>>>> \o
     [k \in 1..(r.Norbits - n0) |->
        subclusters_of(r.tree,
                       r.tree[r.index_to_row[n0 + k] + 1]
                             [r.index_to_column[n0 + k] + 1].prototype,
                       1, <<>>)]

\* the caller empties the tree (Array::clear, as at line 1045) and runs
\* generate_orbitree(prim) on the same object with the same arguments; the
\* tables of get_index() are members and keep what the first run left
RunAgain ==
  /\ pc = "done"
  /\ mode = "radius"
  /\ run = 1
  /\ find_arg = NoCluster
  /\ first' = [tree |-> tree, index |-> index, index_to_row |-> index_to_row,
               index_to_column |-> index_to_column, Norbits |-> Norbits]
  /\ run' = 2
  /\ tree' = <<>>
  /\ np' = 0 /\ no' = 0 /\ i' = 0 /\ tclust' = <<>> /\ gridstruc' = <<>>
  /\ pc' = "start"
  /\ UNCHANGED <<inputs, max_length, tables, count_locals, query, subcluster,
                 compare_vars, aux>>

\* a caller of the finished tree runs get_hierarchy()
GetHierarchy ==
  /\ pc \in {"done", "p_done"}
  /\ find_arg = NoCluster
  /\ SetTables(get_index(tree))
  /\ subcluster' = get_hierarchy(tree)
  /\ pc' = "hierarchy"
  /\ UNCHANGED <<inputs, max_length, count_locals, locals, query, run, first,
                 compare_vars, aux>>

\* the clusters find() is queried with once the tree is built
QuerySites == {<<0, 0, 0>>, <<0, 0, 1>>, <<1, 0, 0>>, <<-1, 1, 1>>, <<2, 0, 0>>}

RECURSIVE ClustersUpTo(_)
ClustersUpTo(n) ==
  IF n = 0 THEN {<<>>}
  ELSE LET shorter == ClustersUpTo(n - 1)
       IN shorter \cup {Append(c, s) : c \in {d \in shorter : Len(d) = n - 1},
                                       s \in QuerySites}

\* the empty cluster, the points and the pairs over QuerySites
QueryClusters == ClustersUpTo(2)

\* a caller of the finished tree runs find(test_clust); find() is const, so
\* one query per finished tree is followed
FindQuery ==
  /\ pc = "done"
  /\ find_arg = NoCluster
  /\ \E c \in QueryClusters :
       /\ find_arg' = c
       /\ find_ret' = find(tree, c)
  /\ UNCHANGED <<inputs, max_length, count_locals, tree, tables, pc, locals, ext>>

Next ==
  \/ Begin
  \/ BranchHead
  \/ OrbitHead
  \/ TryCandidate
  \/ NextOrbit
  \/ Finish
  \/ CountBegin
  \/ CountBranchHead
  \/ CountPairOrbitHead
  \/ CountPairCandidate
  \/ CountPairNextOrbit
  \/ CountEnlargeGrid
  \/ CountTruncate
  \/ CountOrbitHead
  \/ CountTryCandidate
  \/ CountNextOrbit
  \/ CountFinish
  \/ FindQuery
  \/ GetHierarchy
  \/ RunAgain

Spec == Init /\ [][Next]_vars

-----------------------------------------------------------------------------
(* The SymCompare variants of ClusterSymCompare_impl.hh *)

\* side of the supercell of the Scel variants, in unit cells
ScelSide == 2

\* traits<...>::position: the site that anchors the translation, obj[0]
\* (comments at lines 107 and 159)
position(elem) == elem[1]

\* m_bring_within_f: the periodic image of a site inside the supercell
bring_within_f(site) == <<site[1] % ScelSide, site[2] % ScelSide, site[3]>>

\* traits<WithinScelSymCompare>::bring_within: every site inside the supercell
bring_within(elem) == [k \in DOMAIN elem |-> bring_within_f(elem[k])]

\* Element::sort
sort(elem) == representation_prepare(elem)

\* lines 72-76, 108-117, 160-169, 222-226
spatial_prepare_impl(v, elem) ==
  CASE v = "Aperiodic" -> elem
    [] v = "PrimPeriodic" ->
         IF Len(elem) = 0 THEN elem
         ELSE Translate(elem, -position(elem)[1], -position(elem)[2])
    [] v = "ScelPeriodic" ->
         IF Len(elem) = 0 THEN elem
         ELSE Translate(elem,
                        bring_within_f(position(elem))[1] - position(elem)[1],
                        bring_within_f(position(elem))[2] - position(elem)[2])
    [] v = "WithinScel" -> elem

\* lines 89-93, 129-138, 181-190, 239-248
representation_prepare_impl(v, elem) ==
  CASE v = "Aperiodic" -> sort(elem)
    [] v = "PrimPeriodic" -> IF Len(elem) = 0 THEN elem ELSE sort(elem)
    [] v = "ScelPeriodic" -> IF Len(elem) = 0 THEN elem ELSE sort(elem)
    [] v = "WithinScel" ->
         IF Len(elem) = 0 THEN elem ELSE sort(bring_within(elem))

\* m_spatial_transform left unassigned
spatial_transform_kept(v, elem, old) == old

\* lines 109-115, 161-167: the translation that spatial_prepare_impl records
\* in m_spatial_transform; no other statement assigns the member
spatial_transform_after(v, elem, old) ==
  CASE v = "PrimPeriodic" /\ Len(elem) # 0 ->
         <<-position(elem)[1], -position(elem)[2]>>
    [] v = "ScelPeriodic" /\ Len(elem) # 0 ->
         <<bring_within_f(position(elem))[1] - position(elem)[1],
           bring_within_f(position(elem))[2] - position(elem)[2]>>
    [] OTHER -> old

\* SymCompare::prepare
prepare_impl(v, elem) == representation_prepare_impl(v, spatial_prepare_impl(v, elem))

Variants == {"Aperiodic", "PrimPeriodic", "ScelPeriodic", "WithinScel"}

\* no enumeration runs on the Orbitree
NoEnumeration ==
  /\ factor_group = <<>> /\ min_num_components = 1 /\ max_num_sites = 0
  /\ max_length = <<0>> /\ min_length = 0 /\ mode = "none" /\ maxClust = 0
  /\ maxClustLength = 0 /\ numClust = 0 /\ ctr = 0
  /\ tree = <<>>
  /\ index = <<>> /\ index_to_row = <<>> /\ index_to_column = <<>> /\ Norbits = 0
  /\ pc = "idle"
  /\ np = 0 /\ no = 0 /\ i = 0 /\ tclust = <<>> /\ gridstruc = <<>>
  /\ find_arg = NoCluster /\ find_ret = -1
  /\ subcluster = <<>>
  /\ run = 1 /\ first = <<>>

InitPrepare ==
  /\ NoEnumeration
  /\ NoAux
  /\ variant \in Variants
  /\ obj \in QueryClusters
  /\ prepared = <<>>
  /\ m_spatial_transform = <<0, 0>>

\* prepare() applied to the element, then to its own result
Prepare ==
  /\ variant \in Variants
  /\ Len(prepared) < 2
  /\ LET arg == IF prepared = <<>> THEN obj ELSE prepared[Len(prepared)]
     IN /\ prepared' = Append(prepared, prepare_impl(variant, arg))
        /\ m_spatial_transform' =
             spatial_transform_after(variant, arg, m_spatial_transform)
  /\ pc' = "idle"
  /\ UNCHANGED <<inputs, max_length, tree, tables, locals, count_locals,
                 query, subcluster, run, first, variant, obj, aux>>

\* spatial_prepare(X) called on the same comparator with another element
SpatialPrepare ==
  /\ variant \in Variants
  /\ \E X \in QueryClusters :
       /\ obj' = X
       /\ m_spatial_transform' =
            spatial_transform_after(variant, X, m_spatial_transform)
  /\ prepared' = <<>>
  /\ pc' = "spatial_prepared"
  /\ UNCHANGED <<inputs, max_length, tree, tables, locals, count_locals,
                 query, subcluster, run, first, variant, aux>>

NextPrepare ==
  \/ Prepare
  \/ SpatialPrepare

SpecPrepare == InitPrepare /\ [][NextPrepare]_vars

-----------------------------------------------------------------------------
(* generate_orbitree_from_proto_file(filename, sym_group, ptype) *)

\* largest number of prototypes in the file
MaxProtoEntries == 2

\* lines 1227-1274: what the reading loop leaves in n_equiv and prototype_list
ProtoFiles == UNION {[1..n -> [n_equiv : {1, 2, 4}, clust : { << <<0, 0, 0>> >>, << <<0, 0, 1>> >>, << <<0, 0, 0>>, <<1, 0, 0>> >>, << <<0, 0, 0>>, <<0, 0, 1>> >> }]] : n \in 0..MaxProtoEntries}

\* the test that reports a mismatch only when too few equivalents came out
declared_count_differs_when_fewer(n, orb) == n > Len(orb.equivalents)

\* line 1288: the declared and the generated number of equivalents differ
declared_count_differs(n, orb) == n # Len(orb.equivalents)

InitProto ==
  /\ factor_group \in {<<Identity>>, <<Identity, Inversion>>, SquareGroup}
  /\ file \in ProtoFiles
  /\ min_num_components = 1 /\ max_num_sites = 0
  /\ max_length = <<0>> /\ min_length = 0 /\ mode = "proto" /\ maxClust = 0
  /\ maxClustLength = 0 /\ numClust = 0 /\ ctr = 0
  /\ tree = <<>>
  /\ index = <<>> /\ index_to_row = <<>> /\ index_to_column = <<>> /\ Norbits = 0
  /\ pc = "p_start"
  /\ np = 0 /\ no = 0 /\ i = 0 /\ tclust = <<>> /\ gridstruc = <<>>
  /\ find_arg = NoCluster /\ find_ret = -1
  /\ subcluster = <<>>
  /\ run = 1 /\ first = <<>>
  /\ NoPrepare /\ NoPhenom /\ NoHop /\ NoSub

\* lines 1205-1277: clear(), the file is read, max_num_sites, resize
ProtoRead ==
  /\ pc = "p_start"
  /\ max_num_sites' = Max({0} \cup {Len(file[k].clust) : k \in DOMAIN file})
  /\ tree' = resize(<<>>, max_num_sites' + 1)
  /\ i' = 0
  /\ pc' = "p_orbit"
  /\ UNCHANGED <<factor_group, min_num_components, min_length, mode, maxClust,
                 max_length, tables, np, no, tclust, gridstruc, count_locals,
                 query, ext>>

\* lines 1280-1301: the orbit of prototype i and the test of its size
ProtoAddOrbit ==
  /\ pc = "p_orbit"
  /\ i < Len(file)
  /\ LET clust == file[i + 1].clust
         orb   == new_orbit(clust, factor_group)
     IN /\ tree' = branch_push_back(tree, Len(clust), orb)
        /\ IF declared_count_differs(file[i + 1].n_equiv, orb)
           THEN pc' = "p_exit" /\ i' = i
           ELSE pc' = pc /\ i' = i + 1
  /\ UNCHANGED <<inputs, max_length, tables, np, no, tclust, gridstruc,
                 count_locals, query, ext>>

\* lines 1303-1306: sort(), get_index(), return
ProtoFinish ==
  /\ pc = "p_orbit"
  /\ i >= Len(file)
  /\ SetTables(get_index(tree_sort(tree)))
  /\ pc' = "p_done"
  /\ UNCHANGED <<inputs, max_length, locals, count_locals, query, ext>>

\* a caller of the finished tree runs find(test_orbit) with the orbit of a
\* cluster under the same group
FindOrbit ==
  /\ pc = "p_done"
  /\ find_arg = NoCluster
  /\ \E c \in QueryClusters :
       /\ find_arg' = c
       /\ find_ret' = find_orbit(tree, new_orbit(c, factor_group))
  /\ pc' = "p_found"
  /\ UNCHANGED <<inputs, max_length, count_locals, tree, tables, locals, ext>>

NextProto ==
  \/ ProtoRead
  \/ ProtoAddOrbit
  \/ ProtoFinish
  \/ GetHierarchy
  \/ FindOrbit

SpecProto == InitProto /\ [][NextProto]_vars

-----------------------------------------------------------------------------
(* generate_local_orbitree(prim, phenom_clust, include_phenom_clust_sites) *)

\* phenom_clust.get_clust_group(prim.factor_group()), PERIODIC: the
\* operations that map the phenomenal cluster onto itself
get_clust_group(phenom, group) ==
  SubSeqAt(group, {k \in DOMAIN group :
                     is_equivalent(copy_apply(group[k], phenom), phenom)})

\* PERIODICITY_MODE LOCAL: clusters are compared as they lie, sorted but
\* not translated
local_get_equivalent(orb, group) ==
  LET images == [k \in DOMAIN group |-> sort(copy_apply(group[k], orb.prototype))]
      firsts == {k \in DOMAIN images : \A j \in 1..(k - 1) : images[j] # images[k]}
      equivs == SubSeqAt(images, firsts)
      proto  == IF equivs = <<>> THEN orb.prototype
                ELSE CHOOSE e \in Range(equivs) :
                       \A f \in Range(equivs) : ~compare_impl(f, e)
  IN [orb EXCEPT !.equivalents = equivs, !.prototype = proto, !.sym_group = group]

local_get_cluster_symmetry(orb) ==
  LET stab == {k \in DOMAIN orb.sym_group :
                 sort(copy_apply(orb.sym_group[k], orb.prototype)) = sort(orb.prototype)}
  IN [orb EXCEPT !.clust_group = SubSeqAt(orb.sym_group, stab)]

local_orbit_contains(orb, test_clust) ==
  \E e \in Range(orb.equivalents) : e = sort(test_clust)

\* GenericOrbitree::contains under PERIODICITY_MODE LOCAL
local_contains(t, test_clust) ==
  \E b \in DOMAIN t : \E j \in DOMAIN t[b] : local_orbit_contains(t[b][j], test_clust)

\* lines 2423-2425, 2483-2485, 2491-2498: the orbit of a cluster under the
\* cluster group of the phenomenal cluster
new_local_orbit(clust, group) ==
  local_get_cluster_symmetry(local_get_equivalent(GenericOrbit(clust), group))

\* Cluster::calc_properties(phenom_clust): the longest distance between two
\* sites of the cluster or between one of them and a phenomenal site
local_max_length_of(clust, phenom) ==
  Max({0} \cup {dist(clust[j], clust[k]) : j, k \in DOMAIN clust}
          \cup {dist(clust[j], phenom[k]) : j \in DOMAIN clust, k \in DOMAIN phenom})

\* the grid test that never leaves a phenomenal site out
excluded_from_grid_never(include, tatom, phenom) == FALSE

\* lines 2338-2350: the site coincides with a site of the phenomenal cluster
\* and such sites are not to be included
excluded_from_grid(include, tatom, phenom) ==
  ~include /\ \E j \in DOMAIN phenom : phenom[j] = tatom

\* lines 2319-2369: every site of the cells -dim..dim that is not excluded
\* and whose farthest phenomenal site is closer than max_radius
local_gridstruc(basis, max_radius, phenom, include) ==
  LET dim == enclose_sphere(max_radius)
      w   == 2 * dim + 1
      nb  == Len(basis)
      all == [e \in 1..(w * w * nb) |->
                <<((((e - 1) \div nb) % w) - dim),
                  ((((e - 1) \div nb) \div w) - dim),
                  basis[((e - 1) % nb) + 1]>>]
  IN SelectSeq(all, LAMBDA tatom :
       /\ ~excluded_from_grid(include, tatom, phenom)
       /\ Max({0} \cup {dist(tatom, phenom[j]) : j \in DOMAIN phenom}) < max_radius)

\* lines 2481 and 2488: the test that lets tclust start a new orbit
local_accepts(t, n, clust, ml, minl, phenom) ==
  \/ n = 1 /\ ~local_contains(t, clust)
  \/ /\ local_max_length_of(clust, phenom) < MaxLengthAt(ml, n)
     /\ min_length_of(clust) > minl
     /\ ~local_contains(t, clust)

InitLocal ==
  /\ factor_group \in {<<Identity>>, <<Identity, Inversion>>, SquareGroup}
  /\ max_num_sites \in 0..MaxNumSites
  /\ min_length \in {-1, 0}
  /\ min_num_components \in 1..3
  /\ max_length \in {ml \in [1..(max_num_sites + 1) -> {0, 5}] : ml[1] = 0}
  /\ phenom_clust \in { << <<0, 0, 0>> >>, << <<-1, 0, 0>>, <<1, 0, 0>> >> }
  /\ include_phenom_clust_sites \in BOOLEAN
  /\ mode = "local" /\ maxClust = 0
  /\ maxClustLength = 0 /\ numClust = 0 /\ ctr = 0
  /\ tree = <<>>
  /\ index = <<>> /\ index_to_row = <<>> /\ index_to_column = <<>> /\ Norbits = 0
  /\ pc = "l_start"
  /\ np = 0 /\ no = 0 /\ i = 0 /\ tclust = <<>> /\ gridstruc = <<>>
  /\ find_arg = NoCluster /\ find_ret = -1
  /\ subcluster = <<>>
  /\ run = 1 /\ first = <<>>
  /\ NoPrepare /\ NoFile /\ NoHop /\ NoSub

\* the cluster group of the phenomenal cluster (line 2393)
PhenomGroup == get_clust_group(phenom_clust, factor_group)

\* lines 2302-2425: the basis, the grid, resize, the orbit of the empty cluster
LocalBegin ==
  /\ pc = "l_start"
  /\ gridstruc' = local_gridstruc(participating_basis(min_num_components),
                                  Max(Range(max_length)), phenom_clust,
                                  include_phenom_clust_sites)
  /\ tree' = branch_push_back(resize(tree, max_num_sites + 1), 0,
                              new_local_orbit(<<>>, PhenomGroup))
  /\ np' = 1
  /\ pc' = "l_branch"
  /\ UNCHANGED <<inputs, max_length, tables, no, i, tclust, count_locals, query, ext>>

\* lines 2429-2440: head of the loop over np; with the previous branch empty
\* a warning is written, the tree is sorted and indexed, and the call returns
LocalBranchHead ==
  /\ pc = "l_branch"
  /\ np <= max_num_sites
  /\ IF size_np(tree, np - 1) = 0
     THEN /\ SetTables(get_index(tree_sort(tree)))
          /\ pc' = "l_done"
          /\ UNCHANGED no
     ELSE /\ no' = 0
          /\ pc' = "l_orbit"
          /\ UNCHANGED <<tree, tables>>
  /\ UNCHANGED <<inputs, max_length, count_locals, np, i, tclust, gridstruc, query, ext>>

\* lines 2443-2449: head of the loop over the orbits of branch np - 1
LocalOrbitHead ==
  /\ pc = "l_orbit"
  /\ IF no < size_np(tree, np - 1)
     THEN /\ tclust' = tree[np][no + 1].prototype
          /\ i' = 0
          /\ pc' = "l_site"
          /\ UNCHANGED np
     ELSE /\ np' = np + 1
          /\ pc' = "l_branch"
          /\ UNCHANGED <<i, tclust>>
  /\ UNCHANGED <<inputs, max_length, count_locals, tree, tables, no, gridstruc, query, ext>>

\* lines 2452-2502: one grid site; the cluster is not brought within
LocalTryCandidate ==
  /\ pc = "l_site"
  /\ i < Len(gridstruc)
  /\ LET cand == Append(tclust, gridstruc[i + 1])
     IN tree' = IF local_accepts(tree, np, cand, max_length, min_length, phenom_clust)
                THEN branch_push_back(tree, np, new_local_orbit(cand, PhenomGroup))
                ELSE tree
  /\ i' = i + 1
  /\ UNCHANGED <<inputs, max_length, count_locals, tables, pc, np, no, tclust,
                 gridstruc, query, ext>>

\* line 2452: the grid is exhausted
LocalNextOrbit ==
  /\ pc = "l_site"
  /\ i >= Len(gridstruc)
  /\ no' = no + 1
  /\ pc' = "l_orbit"
  /\ UNCHANGED <<inputs, max_length, count_locals, tree, tables, np, i, tclust,
                 gridstruc, query, ext>>

\* lines 2505-2507: sort(), get_index(), return
LocalFinish ==
  /\ pc = "l_branch"
  /\ np > max_num_sites
  /\ SetTables(get_index(tree_sort(tree)))
  /\ pc' = "l_done"
  /\ UNCHANGED <<inputs, max_length, locals, count_locals, query, ext>>

NextLocal ==
  \/ LocalBegin
  \/ LocalBranchHead
  \/ LocalOrbitHead
  \/ LocalTryCandidate
  \/ LocalNextOrbit
  \/ LocalFinish

SpecLocal == InitLocal /\ [][NextLocal]_vars

-----------------------------------------------------------------------------
(* generate_hop_orbitree(in_tree, prim) *)

\* site_occupant() of the two sublattices; "Va" is the vacancy
HopDomains == << <<"A", "Va">>, <<"B", "Va">> >>

InTrees ==
  { << << <<>> >>,
       << << <<0, 0, 0>> >>, << <<0, 0, 1>> >> >> >>,
    << << <<>> >>,
       << << <<0, 0, 0>> >>, << <<0, 0, 1>> >> >>,
       << << <<0, 0, 0>>, <<1, 0, 0>> >>, << <<0, 0, 0>>, <<0, 0, 1>> >> >> >>,
    << << <<>> >>,
       << << <<0, 0, 0>> >>, << <<0, 0, 1>> >> >>,
       << << <<0, 0, 0>>, <<1, 0, 0>> >>, << <<0, 0, 0>>, <<0, 0, 1>> >> >>,
       << << <<0, 0, 0>>, <<1, 0, 0>>, <<0, 1, 0>> >> >> >> }

\* SiteCluster::get_full_decor_map: every choice of one occupant per site,
\* the first site fastest; entry d (from 0) as occupant indices
full_decor_map(clust) ==
  LET f[k \in 0..Len(clust)] ==
        IF k = 0 THEN 1 ELSE f[k - 1] * Len(HopDomains[clust[k][3] + 1])
  IN [d \in 1..f[Len(clust)] |->
        [k \in DOMAIN clust |->
           (((d - 1) \div f[k - 1]) % Len(HopDomains[clust[k][3] + 1])) + 1]]

\* SiteCluster::decorate: the sites with their occupants, <<x, y, b, occupant>>
decorate(clust, decor) ==
  [k \in DOMAIN clust |->
     <<clust[k][1], clust[k][2], clust[k][3], HopDomains[clust[k][3] + 1][decor[k]]>>]

\* lines 1076-1080
Va_count(sc) == Cardinality({k \in DOMAIN sc : sc[k][4] = "Va"})

\* Array::next_permute: the permutations of 1..n in lexicographic order
PermSet(n) == {q \in [1..n -> 1..n] : \A a, b \in 1..n : a # b => q[a] # q[b]}

PermLess(q, r) ==
  \E k \in DOMAIN q : q[k] < r[k] /\ \A j \in 1..(k - 1) : q[j] = r[j]

NthPerm(n, k) ==
  CHOOSE q \in PermSet(n) : Cardinality({r \in PermSet(n) : PermLess(r, q)}) = k - 1

\* the test that lets a permutation pass as soon as one atom moves
perm_ok_some_move(perm) == \E k \in DOMAIN perm : perm[k] # k

\* lines 1116-1121: all atoms move
perm_ok(perm) == \A k \in DOMAIN perm : perm[k] # k

\* HopCluster::allowed: every occupant is in the domain of the site it moves to
allowed(sc, perm) ==
  \A k \in DOMAIN sc :
    \E o \in DOMAIN HopDomains[sc[perm[k]][3] + 1] :
      HopDomains[sc[perm[k]][3] + 1][o] = sc[k][4]

\* HopCluster(sclust, perm): per site the occupant and the site it moves to,
\* <<x, y, b, occupant, x', y', b'>>
HopCluster(sc, perm) ==
  [k \in DOMAIN sc |->
     <<sc[k][1], sc[k][2], sc[k][3], sc[k][4],
       sc[perm[k]][1], sc[perm[k]][2], sc[perm[k]][3]>>]

\* SymOp * HopCluster
hop_copy_apply(op, h) ==
  [k \in DOMAIN h |->
     LET a == SymOpApply(op, <<h[k][1], h[k][2], h[k][3]>>)
         b == SymOpApply(op, <<h[k][5], h[k][6], h[k][7]>>)
     IN <<a[1], a[2], a[3], h[k][4], b[1], b[2], b[3]>>]

\* the periodic image with the smallest site in the origin cell, sorted by site
hop_prepare(h) ==
  IF h = <<>> THEN h
  ELSE LET anchor == CHOOSE s \in Range(h) : \A t \in Range(h) : ~SiteLess(t, s)
           moved == [k \in DOMAIN h |->
                       <<h[k][1] - anchor[1], h[k][2] - anchor[2], h[k][3], h[k][4],
                         h[k][5] - anchor[1], h[k][6] - anchor[2], h[k][7]>>]
       IN sort(moved)

\* GenericOrbit<HopCluster>: get_equivalent and get_cluster_symmetry
new_hop_orbit(h, group) ==
  LET images == [k \in DOMAIN group |-> hop_prepare(hop_copy_apply(group[k], h))]
      firsts == {k \in DOMAIN images : \A j \in 1..(k - 1) : images[j] # images[k]}
      equivs == SubSeqAt(images, firsts)
      proto  == IF equivs = <<>> THEN h ELSE equivs[1]
      stab   == {k \in DOMAIN group : hop_prepare(hop_copy_apply(group[k], proto)) = proto}
  IN [prototype |-> proto, equivalents |-> equivs, sym_group |-> group,
      clust_group |-> SubSeqAt(group, stab), index |-> -1]

hop_orbit_contains(orb, h) ==
  \E e \in Range(orb.equivalents) : e = hop_prepare(h)

\* GenericOrbitree<HopCluster>::contains
hop_contains(t, h) ==
  \E b \in DOMAIN t : \E j \in DOMAIN t[b] : hop_orbit_contains(t[b][j], h)

InitHop ==
  /\ factor_group \in {<<Identity>>, <<Identity, Inversion>>, SquareGroup}
  /\ in_tree \in InTrees
  /\ sclust = <<>> /\ nd = 0 /\ perm_no = 0
  /\ min_num_components = 1 /\ max_num_sites = 0
  /\ max_length = <<0>> /\ min_length = 0 /\ mode = "hop" /\ maxClust = 0
  /\ maxClustLength = 0 /\ numClust = 0 /\ ctr = 0
  /\ tree = <<>>
  /\ index = <<>> /\ index_to_row = <<>> /\ index_to_column = <<>> /\ Norbits = 0
  /\ pc = "h_start"
  /\ np = 0 /\ no = 0 /\ i = 0 /\ tclust = <<>> /\ gridstruc = <<>>
  /\ find_arg = NoCluster /\ find_ret = -1
  /\ subcluster = <<>>
  /\ run = 1 /\ first = <<>>
  /\ NoPrepare /\ NoFile /\ NoPhenom /\ NoSub

\* what no action of generate_hop_orbitree touches
hop_frame ==
  <<factor_group, min_num_components, min_length, mode, maxClust, max_length,
    i, tclust, gridstruc, count_locals, query, subcluster, run, first,
    compare_vars, file, phenom_clust, include_phenom_clust_sites, in_tree,
    <<big_clust, choose>>>>

\* lines 1045-1048: clear(), max_num_sites, resize
HopBegin ==
  /\ pc = "h_start"
  /\ max_num_sites' = Len(in_tree) - 1
  /\ tree' = resize(<<>>, max_num_sites' + 1)
  /\ np' = 2 /\ no' = 0
  /\ pc' = "h_orbit"
  /\ UNCHANGED <<hop_frame, tables, sclust, nd, perm_no>>

\* lines 1057-1063: the loops over the branches and orbits of in_tree
HopOrbitHead ==
  /\ pc = "h_orbit"
  /\ np < Len(in_tree)
  /\ IF no < Len(in_tree[np + 1])
     THEN /\ nd' = 0
          /\ pc' = "h_decor"
          /\ UNCHANGED <<np, no>>
     ELSE /\ np' = np + 1
          /\ no' = 0
          /\ UNCHANGED <<nd, pc>>
  /\ UNCHANGED <<hop_frame, max_num_sites, tree, tables, sclust, perm_no>>

\* lines 1067-1109: the next decoration; it is passed over unless exactly
\* one of its sites is vacant
HopDecorHead ==
  /\ pc = "h_decor"
  /\ LET proto == in_tree[np + 1][no + 1]
         decors == full_decor_map(proto)
     IN IF nd < Len(decors)
        THEN LET sc == decorate(proto, decors[nd + 1])
             IN /\ sclust' = sc
                /\ IF Va_count(sc) # 1
                   THEN nd' = nd + 1 /\ UNCHANGED <<pc, perm_no>>
                   ELSE perm_no' = 1 /\ pc' = "h_perm" /\ UNCHANGED nd
                /\ UNCHANGED no
        ELSE /\ no' = no + 1
             /\ pc' = "h_orbit"
             /\ UNCHANGED <<sclust, nd, perm_no>>
  /\ UNCHANGED <<hop_frame, max_num_sites, tree, tables, np>>

\* lines 1112-1169: one permutation
HopTryPerm ==
  /\ pc = "h_perm"
  /\ LET perm == NthPerm(np, perm_no)
         hop == HopCluster(sclust, perm)
     IN tree' = IF perm_ok(perm) /\ allowed(sclust, perm) /\ ~hop_contains(tree, hop)
                THEN branch_push_back(tree, np, new_hop_orbit(hop, factor_group))
                ELSE tree
  /\ IF perm_no < Cardinality(PermSet(np))
     THEN perm_no' = perm_no + 1 /\ UNCHANGED <<nd, pc>>
     ELSE nd' = nd + 1 /\ pc' = "h_decor" /\ UNCHANGED perm_no
  /\ UNCHANGED <<hop_frame, max_num_sites, tables, np, no, sclust>>

\* lines 1179-1182: sort(), get_index(), return
HopFinish ==
  /\ pc = "h_orbit"
  /\ np >= Len(in_tree)
  /\ SetTables(get_index(tree_sort(tree)))
  /\ pc' = "h_done"
  /\ UNCHANGED <<hop_frame, max_num_sites, np, no, sclust, nd, perm_no>>

NextHop ==
  \/ HopBegin
  \/ HopOrbitHead
  \/ HopDecorHead
  \/ HopTryPerm
  \/ HopFinish

SpecHop == InitHop /\ [][NextHop]_vars

-----------------------------------------------------------------------------
(* add_subclusters(big_clust, prim) *)

\* the trees add_subclusters is called on: the lone empty branch that
\* read_custom_clusters_from_json makes of an empty tree (lines 2756-2760),
\* and trees that already hold the empty cluster, the points and a pair
SubTrees(group) ==
  IF group = <<>> THEN { << <<>> >> }
  ELSE { << <<>> >>,
         << <<empty_cluster_orbit(group)>>,
            <<new_orbit(<< <<0, 0, 0>> >>, group)>> >>,
         << <<empty_cluster_orbit(group)>>,
            <<new_orbit(<< <<0, 0, 0>> >>, group)>>,
            <<new_orbit(<< <<0, 0, 0>>, <<1, 0, 0>> >>, group)>> >> }

\* the choice that starts from the first k sites
initial_choose_first(n, k) == [j \in 1..n |-> IF j <= k THEN 1 ELSE 0]

\* lines 2857-2859: the last k entries of choose are 1
initial_choose(n, k) == [j \in 1..n |-> IF j > n - k THEN 1 ELSE 0]

ChooseLess(c, d) ==
  \E k \in DOMAIN c : c[k] < d[k] /\ \A j \in 1..(k - 1) : c[j] = d[j]

\* the arrays Array::next_permute can step to: the same entries, later in
\* lexicographic order
LaterChooses(c) ==
  {d \in [DOMAIN c -> {0, 1}] :
     /\ Cardinality({j \in DOMAIN d : d[j] = 1}) = Cardinality({j \in DOMAIN c : c[j] = 1})
     /\ ChooseLess(c, d)}

next_permute(c) ==
  CHOOSE d \in LaterChooses(c) : \A e \in LaterChooses(c) : ~ChooseLess(e, d)

\* lines 2863-2868: the chosen sites, in order, brought within the cell
test_clust(big, c) == within(SubSeqAt(big, {j \in DOMAIN c : c[j] = 1}))

InitSub ==
  /\ factor_group \in {<<>>, <<Identity>>, SquareGroup}
  /\ tree \in SubTrees(factor_group)
  /\ big_clust \in { << <<0, 0, 1>> >>, << <<0, 0, 0>>, <<1, 0, 0>> >>, << <<0, 0, 0>>, <<0, 0, 1>> >>, << <<0, 0, 0>>, <<1, 0, 0>>, <<0, 1, 0>> >>, << <<1, 0, 0>>, <<1, 0, 1>>, <<2, 0, 0>> >> }
  /\ choose = <<>>
  /\ min_num_components = 1 /\ max_num_sites = Len(tree) - 1
  /\ max_length = <<0>> /\ min_length = 0 /\ mode = "subclusters" /\ maxClust = 0
  /\ maxClustLength = 0 /\ numClust = 0 /\ ctr = 0
  /\ index = <<>> /\ index_to_row = <<>> /\ index_to_column = <<>> /\ Norbits = 0
  /\ pc = "s_start"
  /\ np = 0 /\ no = 0 /\ i = 0 /\ tclust = <<>> /\ gridstruc = <<>>
  /\ find_arg = NoCluster /\ find_ret = -1
  /\ subcluster = <<>>
  /\ run = 1 /\ first = <<>>
  /\ NoPrepare /\ NoFile /\ NoPhenom /\ NoHop

\* what no action of add_subclusters touches
sub_frame ==
  <<factor_group, min_num_components, min_length, mode, maxClust, max_length,
    np, no, tclust, gridstruc, count_locals, query, run, first,
    compare_vars, file, phenom_clust, include_phenom_clust_sites, <<in_tree, sclust, nd, perm_no>>,
    big_clust>>

\* lines 2827-2852: the check of the factor group, the new branches
AddSubBegin ==
  /\ pc = "s_start"
  /\ IF Len(factor_group) = 0
     THEN /\ pc' = "aborted"
          /\ UNCHANGED <<tree, max_num_sites, i, choose>>
     ELSE /\ tree' = IF Len(tree) - 1 < Len(big_clust)
                     THEN resize(tree, Len(tree) + (Len(big_clust) - Len(tree)) + 1)
                     ELSE tree
          /\ max_num_sites' = IF Len(tree) - 1 < Len(big_clust)
                              THEN Len(big_clust) ELSE max_num_sites
          /\ i' = 1
          /\ choose' = initial_choose(Len(big_clust), 1)
          /\ pc' = "s_choose"
  /\ UNCHANGED <<sub_frame, tables, subcluster>>

\* lines 2861-2876: one choice of i sites
AddSubChoose ==
  /\ pc = "s_choose"
  /\ i <= Len(big_clust)
  /\ LET test == test_clust(big_clust, choose)
     IN tree' = IF ~contains(tree, test)
                THEN branch_push_back(tree, i, new_orbit(test, factor_group))
                ELSE tree
  /\ IF LaterChooses(choose) # {}
     THEN choose' = next_permute(choose) /\ UNCHANGED i
     ELSE /\ i' = i + 1
          /\ choose' = IF i + 1 <= Len(big_clust)
                       THEN initial_choose(Len(big_clust), i + 1) ELSE choose
  /\ UNCHANGED <<sub_frame, max_num_sites, tables, subcluster, pc>>

\* lines 2878-2880: sort(), get_index(), get_hierarchy()
AddSubFinish ==
  /\ pc = "s_choose"
  /\ i > Len(big_clust)
  /\ SetTables(get_index(tree_sort(tree)))
  /\ subcluster' = get_hierarchy(tree_sort(tree))
  /\ pc' = "s_done"
  /\ UNCHANGED <<sub_frame, max_num_sites, i, choose>>

NextSub ==
  \/ AddSubBegin
  \/ AddSubChoose
  \/ AddSubFinish

SpecSub == InitSub /\ [][NextSub]_vars

-----------------------------------------------------------------------------
(* generate_in_cell(prim, cell, num_images), num_images = 0 *)

\* lines 1336-1356: for every shift of the cell by 0 or 1 cell vectors, for
\* every participating basis site, every site of the supercell minus the shift
in_cell_grid(basis) ==
  LET C == ScelSide * ScelSide
      per == Len(basis) * C
  IN [e \in 1..(4 * per) |->
        LET sh == (e - 1) \div per
            r  == (e - 1) % per
            j  == r % C
        IN <<(j % ScelSide) - ScelSide * (sh % 2),
             (j \div ScelSide) - ScelSide * (sh \div 2),
             basis[(r \div C) + 1]>>]

\* Cluster::image_check(cell, 0): two sites of the cluster are periodic
\* images of each other in the supercell
image_check(clust) ==
  \E j, k \in DOMAIN clust :
    /\ j < k
    /\ clust[j][3] = clust[k][3]
    /\ (clust[j][1] - clust[k][1]) % ScelSide = 0
    /\ (clust[j][2] - clust[k][2]) % ScelSide = 0

\* the tree is empty or holds what an earlier call left (line 1360 warns
\* and goes on)
InitInCell ==
  /\ factor_group \in {<<Identity>>, <<Identity, Inversion>>, SquareGroup}
  /\ min_num_components \in 1..3
  /\ max_num_sites \in 0..(MaxNumSites + 2)
  /\ min_length \in {-1, 0}
  /\ max_length = <<0>> /\ mode = "in_cell" /\ maxClust = 0
  /\ maxClustLength = 0 /\ numClust = 0 /\ ctr = 0
  /\ tree \in {<<>>} \cup SubTrees(factor_group)
  /\ index = <<>> /\ index_to_row = <<>> /\ index_to_column = <<>> /\ Norbits = 0
  /\ pc = "ic_start"
  /\ np = 0 /\ no = 0 /\ i = 0 /\ tclust = <<>> /\ gridstruc = <<>>
  /\ find_arg = NoCluster /\ find_ret = -1
  /\ subcluster = <<>>
  /\ run = 1 /\ first = <<>>
  /\ NoPrepare /\ NoAux

\* lines 1336-1368: the grid, resize and the orbit of the empty cluster
InCellBegin ==
  /\ pc = "ic_start"
  /\ gridstruc' = in_cell_grid(participating_basis(min_num_components))
  /\ tree' = branch_push_back(resize(tree, max_num_sites + 1), 0,
                              new_orbit(<<>>, factor_group))
  /\ np' = 1
  /\ pc' = "ic_branch"
  /\ UNCHANGED <<inputs, max_length, tables, no, i, tclust, count_locals, query, ext>>

\* lines 1378-1386: head of the loop over np; with the previous branch
\* empty, get_index(), then sort(), then return
InCellBranchHead ==
  /\ pc = "ic_branch"
  /\ np <= max_num_sites
  /\ IF unable_to_enumerate(tree, np)
     THEN /\ LET r == get_index(tree)
             IN SetTables([r EXCEPT !.tree = tree_sort(r.tree)])
          /\ pc' = "ic_done"
          /\ UNCHANGED no
     ELSE /\ no' = 0
          /\ pc' = "ic_orbit"
          /\ UNCHANGED <<tree, tables>>
  /\ UNCHANGED <<inputs, max_length, np, i, tclust, gridstruc, count_locals, query, ext>>

\* lines 1388-1396: head of the loop over the orbits of branch np - 1
InCellOrbitHead ==
  /\ pc = "ic_orbit"
  /\ IF no < size_np(tree, np - 1)
     THEN /\ tclust' = tree[np][no + 1].prototype
          /\ i' = 0
          /\ pc' = "ic_site"
          /\ UNCHANGED np
     ELSE /\ np' = np + 1
          /\ pc' = "ic_branch"
          /\ UNCHANGED <<i, tclust>>
  /\ UNCHANGED <<inputs, max_length, tree, tables, no, gridstruc, count_locals, query, ext>>

\* lines 1396-1414: one grid site; the continue after image_check leaves the
\* pushed site in tclust
InCellTryCandidate ==
  /\ pc = "ic_site"
  /\ IF i < Len(gridstruc)
     THEN /\ IF image_check(Append(tclust, gridstruc[i + 1]))
             THEN /\ tclust' = Append(tclust, gridstruc[i + 1])
                  /\ UNCHANGED tree
             ELSE /\ tree' = IF ~contains(tree, Candidate)
                                /\ min_length_of(Candidate) > min_length
                             THEN branch_push_back(tree, np,
                                                   new_orbit(Candidate, factor_group))
                             ELSE tree
                  /\ tclust' = pop_back(Candidate)
          /\ i' = i + 1
          /\ UNCHANGED <<no, pc>>
     ELSE /\ no' = no + 1
          /\ pc' = "ic_orbit"
          /\ UNCHANGED <<tree, tclust, i>>
  /\ UNCHANGED <<inputs, max_length, tables, np, gridstruc, count_locals, query, ext>>

\* lines 1417-1419: sort(), get_index(), return
InCellFinish ==
  /\ pc = "ic_branch"
  /\ np > max_num_sites
  /\ SetTables(get_index(tree_sort(tree)))
  /\ pc' = "ic_done"
  /\ UNCHANGED <<inputs, max_length, locals, count_locals, query, ext>>

NextInCell ==
  \/ InCellBegin
  \/ InCellBranchHead
  \/ InCellOrbitHead
  \/ InCellTryCandidate
  \/ InCellFinish

SpecInCell == InitInCell /\ [][NextInCell]_vars

-----------------------------------------------------------------------------
(* operator= and generate_decorated_orbitree(in_tree, symgroup, ptype, full_decor) *)

\* lines 1708-1710: every branch of RHS is pushed behind the branches the
\* object holds (clear() of line 1697 is commented out)
operator_assign(lhs, rhs) == lhs \o rhs

\* SiteCluster::get_decor_map: the decorations other than the all-background
\* one, one per class of decorations that the group maps onto each other
get_decor_map(clust, group) ==
  LET full == full_decor_map(clust)
      stay == [k \in DOMAIN clust |-> k]
      orb(d) == new_hop_orbit(HopCluster(decorate(clust, full[d]), stay), group)
      keep == {d \in DOMAIN full :
                 /\ d > 1
                 /\ \A e \in 2..(d - 1) :
                      ~hop_orbit_contains(orb(e),
                                          HopCluster(decorate(clust, full[d]), stay))}
  IN SubSeqAt(full, keep)

\* lines 969-998: the orbits pushed into branch nb, one per decoration of
\* every prototype of in_tree's branch nb from orbit n on; a decorated
\* cluster is held as its sites, their occupants and the same sites again
RECURSIVE decorated_orbits(_, _, _, _, _)
decorated_orbits(t, nb, n, group, full_decor) ==
  IF n >= Len(t[nb + 1]) THEN <<>>
  ELSE LET proto == t[nb + 1][n + 1].prototype
           decor_map == IF full_decor THEN full_decor_map(proto)
                        ELSE get_decor_map(proto, group)
       IN [d \in DOMAIN decor_map |->
             new_hop_orbit(HopCluster(decorate(proto, decor_map[d]),
                                      [k \in DOMAIN proto |-> k]), group)]
          \o decorated_orbits(t, nb, n + 1, group, full_decor)

\* the object holds nothing or an earlier tree; in_tree is a finished tree
\* of undecorated prototypes
InitAssign ==
  /\ factor_group \in {<<Identity>>, <<Identity, Inversion>>, SquareGroup}
  /\ in_tree \in {get_index(tree_sort([b \in DOMAIN p |-> [j \in DOMAIN p[b] |->
                     new_orbit(p[b][j], factor_group)]])).tree : p \in InTrees}
  /\ tree \in {<<>>} \cup SubTrees(factor_group)
  /\ sclust = <<>> /\ nd = 0 /\ perm_no = 0
  /\ min_num_components = 1 /\ max_num_sites = 0
  /\ max_length = <<0>> /\ min_length = 0 /\ mode = "assign" /\ maxClust = 0
  /\ maxClustLength = 0 /\ numClust = 0 /\ ctr = 0
  /\ index = <<>> /\ index_to_row = <<>> /\ index_to_column = <<>> /\ Norbits = 0
  /\ pc = "a_start"
  /\ np = 0 /\ no = 0 /\ i = 0 /\ tclust = <<>> /\ gridstruc = <<>>
  /\ find_arg = NoCluster /\ find_ret = -1
  /\ subcluster = <<>>
  /\ run = 1 /\ first = <<>>
  /\ NoPrepare /\ NoFile /\ NoPhenom /\ NoSub

\* lines 1695-1712: *this = in_tree, once and then once more; the members
\* are those of in_tree, whose tables are the ones get_index() left
Assign ==
  /\ pc \in {"a_start", "assigned"}
  /\ run <= 2
  /\ SetTables([get_index(in_tree) EXCEPT !.tree = operator_assign(tree, in_tree)])
  /\ max_num_sites' = Len(in_tree) - 1
  /\ first' = IF run = 1 THEN tree ELSE first
  /\ run' = run + 1
  /\ pc' = "assigned"
  /\ UNCHANGED <<factor_group, min_num_components, min_length, mode, maxClust,
                 max_length, locals, count_locals, query, subcluster,
                 compare_vars, aux>>

\* lines 948-1003: the whole call
GenerateDecorated ==
  /\ pc = "a_start"
  /\ \E full_decor \in BOOLEAN :
       LET copied == resize(operator_assign(tree, in_tree), Len(in_tree))
           t0 == branch_push_back(copied, 0, empty_cluster_orbit(factor_group))
           grown == [b \in DOMAIN t0 |->
                       IF b = 1 THEN t0[b]
                       ELSE t0[b] \o decorated_orbits(in_tree, b - 1, 0,
                                                      factor_group, full_decor)]
       IN /\ SetTables(get_index(tree_sort(grown)))
          /\ mode' = IF full_decor THEN "full_decor" ELSE "decor"
  /\ max_num_sites' = Len(in_tree) - 1
  /\ first' = tree
  /\ pc' = "decorated"
  /\ UNCHANGED <<factor_group, min_num_components, min_length, maxClust,
                 max_length, locals, count_locals, query, subcluster, run,
                 compare_vars, aux>>

NextAssign ==
  \/ Assign
  \/ GenerateDecorated

SpecAssign == InitAssign /\ [][NextAssign]_vars

-----------------------------------------------------------------------------
(* read_CSPECS(stream) *)

\* lines 1597-1632: the radius branch on the size lines of the stream, each
\* a record [size, radius]; the size is looked at on the first line only
\* (curr_cluster_size is 0 there and a positive size on every later line),
\* every line appends its radius and counts max_num_sites up
read_CSPECS(lines, old_max_num_sites) ==
  IF lines = <<>>
  THEN [max_length |-> <<>>, max_num_sites |-> old_max_num_sites, exit |-> FALSE]
  ELSE IF lines[1].size \notin {1, 2}
  THEN [max_length |-> <<0>>, max_num_sites |-> old_max_num_sites, exit |-> TRUE]
  ELSE LET head == IF lines[1].size = 1 THEN <<0>> ELSE <<0, 0>>
       IN [max_length |-> head \o [k \in DOMAIN lines |-> lines[k].radius],
           max_num_sites |-> (Len(head) - 1) + Len(lines),
           exit |-> FALSE]

\* the stream: its second line names the mode, the size lines follow with
\* sizes in ascending order; the object holds any earlier specification
InitCSPECS ==
  /\ file \in [header : {"R", "N", "x"},
               lines : UNION {{[k \in 1..Cardinality(S) |->
                                  [size |-> CHOOSE n \in S : Cardinality({j \in S : j < n}) = k - 1,
                                   radius |-> rad[k]]] :
                                rad \in [1..Cardinality(S) -> {2, 4, 8}]} :
                              S \in SUBSET (1..4)}]
  /\ max_num_sites \in 0..2
  /\ max_length \in {<<>>, <<0, 0, 8>>}
  /\ min_num_components \in {0, 1}
  /\ factor_group = <<>> /\ min_length = 0 /\ mode = "cspecs" /\ maxClust = 0
  /\ maxClustLength = 0 /\ numClust = 0 /\ ctr = 0
  /\ tree = <<>>
  /\ index = <<>> /\ index_to_row = <<>> /\ index_to_column = <<>> /\ Norbits = 0
  /\ pc = "cs_start"
  /\ np = 0 /\ no = 0 /\ i = 0 /\ tclust = <<>> /\ gridstruc = <<>>
  /\ find_arg = NoCluster /\ find_ret = -1
  /\ subcluster = <<>>
  /\ run = 1 /\ first = <<>>
  /\ NoPrepare /\ NoPhenom /\ NoHop /\ NoSub

\* lines 1585-1655: the whole call; the Number branch fills num_clusts only
ReadCSPECS ==
  /\ pc = "cs_start"
  /\ min_num_components' = 0
  /\ IF file.header = "R"
     THEN LET r == read_CSPECS(file.lines, max_num_sites)
          IN /\ max_length' = r.max_length
             /\ max_num_sites' = r.max_num_sites
             /\ pc' = IF r.exit THEN "cs_exit" ELSE "cs_done"
     ELSE /\ UNCHANGED <<max_length, max_num_sites>>
          /\ pc' = IF file.header = "N" THEN "cs_done" ELSE "cs_exit"
  /\ UNCHANGED <<factor_group, min_length, mode, maxClust, tree, tables,
                 locals, count_locals, query, subcluster, run, first,
                 compare_vars, aux>>

SpecCSPECS == InitCSPECS /\ [][ReadCSPECS]_vars

-----------------------------------------------------------------------------
(* Properties *)

AllOrbits == {<<b, j>> \in (DOMAIN tree) \X (1..MaxOrbitsOf(tree)) : j <= Len(tree[b])}

\* C1: for every orbit of every branch, at every step of generate_orbitree
\* and in the finished tree, (number of equivalents) * (size of the
\* prototype's invariant subgroup) = size of the acting factor group.
C1_OrbitStabilizer ==
  \A p \in AllOrbits :
    Len(tree[p[1]][p[2]].equivalents) * Len(tree[p[1]][p[2]].clust_group)
      = Len(factor_group)

\* an orbit with several equivalents and a stabilizer that is neither
\* trivial nor the whole group sits in the finished pair branch
C1_Witness ==
  /\ pc = "done"
  /\ Len(tree) >= 3
  /\ \E j \in DOMAIN tree[3] :
       /\ Len(tree[3][j].equivalents) = 4
       /\ Len(tree[3][j].clust_group) = 2

CandidateStep == pc = "site" /\ i' = i + 1

Prototypes(t, b) ==
  IF b \in DOMAIN t THEN {t[b][j].prototype : j \in DOMAIN t[b]} ELSE {}

\* C3: in the radius mode a candidate (prototype of branch np-1 plus one
\* grid site) starts a new orbit of branch np if and only if, for np = 1, no
\* orbit of the tree contains it, and for np >= 2, its max_length is below
\* max_length[np], its min_length is above min_length and no orbit of the
\* tree contains it; no orbit enters a branch np >= 1 in any other step.
C3_AcceptanceRule ==
  [][ /\ CandidateStep =>
           LET fresh == \A p \in AllOrbits :
                          ~orbit_contains(tree[p[1]][p[2]], Candidate)
               ok == IF np = 1 THEN fresh
                     ELSE /\ max_length_of(Candidate) < max_length[np + 1]
                          /\ min_length_of(Candidate) > min_length
                          /\ fresh
           IN IF ok
              THEN /\ Len(tree'[np + 1]) = Len(tree[np + 1]) + 1
                   /\ SubSeq(tree'[np + 1], 1, Len(tree[np + 1])) = tree[np + 1]
                   /\ orbit_contains(tree'[np + 1][Len(tree'[np + 1])], Candidate)
                   /\ \A b \in DOMAIN tree : b # np + 1 => tree'[b] = tree[b]
              ELSE tree' = tree
      /\ (mode = "radius" /\ ~CandidateStep) =>
           \A b \in DOMAIN tree' : b >= 2 => Prototypes(tree', b) \subseteq Prototypes(tree, b)
    ]_vars

\* in the pair branch some candidates were accepted and some were rejected
C3_Witness ==
  /\ pc = "site"
  /\ np = 2
  /\ Len(tree[3]) >= 2
  /\ i > Len(tree[3])

C5_BoundaryAccepted ==
  [][ ( /\ CandidateStep
        /\ np >= 2
        /\ max_length_of(Candidate) = max_length[np + 1]
        /\ min_length_of(Candidate) > min_length
        /\ ~contains(tree, Candidate) )
      => Len(tree'[np + 1]) = Len(tree[np + 1]) + 1 ]_vars

C7_EmptyFactorGroupFatal ==
  (Len(factor_group) = 0 /\ pc # "start") => (pc = "aborted" /\ tree = <<>>)

C9_FindNotFound ==
  [][ (find_arg' # find_arg \/ find_ret' # find_ret) =>
        /\ tree' = tree /\ tables' = tables /\ pc' = pc
        /\ find_ret' = find(tree, find_arg')
        /\ (\A p \in AllOrbits : ~orbit_contains(tree[p[1]][p[2]], find_arg'))
             => find_ret' = OrbitsBefore(tree, Len(tree))
        /\ contains(tree, find_arg') <=> find_ret' < OrbitsBefore(tree, Len(tree))
    ]_vars

\* a pair that is in no orbit was looked up in a tree with pair orbits
C9_Witness ==
  /\ pc = "done"
  /\ Len(tree) >= 3
  /\ Len(tree[3]) >= 1
  /\ find_arg = << <<0, 0, 0>>, <<2, 0, 0>> >>
  /\ find_ret = Norbits

\* C10: after get_index() the orbits carry 0..Norbits-1 in branch-major
\* order, Norbits is the sum of the branch sizes, index[index_to_row[k]]
\* [index_to_column[k]] = k for every k < Norbits and that orbit stores k,
\* and get_index() on the unchanged tree gives the same tables again.
C10_LinearIndex ==
  (pc = "done" \/ pc = "fatal") =>
    /\ Norbits = OrbitsBefore(tree, Len(tree))
    /\ Len(index) = Len(tree)
    /\ Len(index_to_row) = Norbits /\ Len(index_to_column) = Norbits
    /\ \A p \in AllOrbits :
         /\ Len(index[p[1]]) = Len(tree[p[1]])
         /\ index[p[1]][p[2]] = OrbitsBefore(tree, p[1] - 1) + (p[2] - 1)
    /\ \A k \in 0..(Norbits - 1) :
         /\ index[index_to_row[k + 1] + 1][index_to_column[k + 1] + 1] = k
         /\ tree[index_to_row[k + 1] + 1][index_to_column[k + 1] + 1].index = k
    /\ get_index(tree) = [tree |-> tree, index |-> index,
                          index_to_row |-> index_to_row,
                          index_to_column |-> index_to_column,
                          Norbits |-> Norbits]

\* a finished tree with six orbits in three branches
C10_Witness ==
  /\ pc = "done"
  /\ Norbits = 6
  /\ index_to_row = <<0, 1, 1, 2, 2, 2>>

\* the sites of a prototype of branch np >= 1 and its place in subcluster
HierarchyRows ==
  {p \in AllOrbits : p[1] >= 2}

RowOf(p) == OrbitsBefore(tree, p[1] - 1) + (p[2] - 1) - Len(tree[1]) + 2

\* C11 (as claimed): after get_hierarchy() the table of every orbit of a
\* branch np >= 1 with a k-site prototype has 2^k - 2 entries, and entry j is
\* find() of the cluster made of exactly the sites the j-th counter value
\* selects.
C11_HierarchyEntries ==
  pc = "hierarchy" =>
    \A p \in HierarchyRows :
      LET proto == tree[p[1]][p[2]].prototype
          row   == subcluster[RowOf(p)]
      IN /\ Len(row) = 2 ^ Len(proto) - 2
         /\ \A j \in DOMAIN row : row[j] = find(tree, mask_sites(proto, j))

\* C12 (as claimed): after generate_orbitree and get_hierarchy() every
\* entry of the table of an orbit of branch np is the linear index of an
\* orbit of a branch below np, never the not-found sentinel.
C12_SubclustersResolve ==
  pc = "hierarchy" =>
    \A p \in HierarchyRows :
      \A j \in DOMAIN subcluster[RowOf(p)] :
        /\ subcluster[RowOf(p)][j] >= 0
        /\ subcluster[RowOf(p)][j] < OrbitsBefore(tree, p[1] - 1)

\* the step that sorts and cuts the pair branch
TruncateStep == pc = "c_pair_orbit" /\ pc' = "c_branch"

\* the max_length of the n-th shortest orbit of a branch
NthShortest(branch, n) ==
  Min({c \in {max_length_of(branch[k].prototype) : k \in DOMAIN branch} :
         Cardinality({k \in DOMAIN branch :
                        max_length_of(branch[k].prototype) <= c}) >= n})

\* C13: in the max-cluster-count mode, with cutoff the max_length of the
\* maxClust-th shortest pair orbit, the cut keeps every pair orbit whose
\* max_length is at most the cutoff, removes every longer one, leaves the
\* branch ordered by length and with at least maxClust orbits.
C13_PairCutoff ==
  [][ TruncateStep =>
        LET before == tree[np + 1]
            after  == tree'[np + 1]
            cutoff == NthShortest(before, maxClust)
            kept   == {k \in DOMAIN before :
                         max_length_of(before[k].prototype) <= cutoff}
        IN /\ Len(after) = Cardinality(kept)
           /\ Range(after) = {before[k] : k \in kept}
           /\ Len(after) >= maxClust
           /\ \A j \in DOMAIN after : max_length_of(after[j].prototype) <= cutoff
           /\ \A j, k \in DOMAIN after :
                j < k => max_length_of(after[j].prototype)
                           <= max_length_of(after[k].prototype)
    ]_vars

\* the cut took longer pairs away and kept more than maxClust orbits, the
\* extra ones lying exactly at the cutoff
C13_Witness ==
  /\ mode = "count"
  /\ pc = "c_branch"
  /\ np = 3
  /\ numClust > Len(tree[3])
  /\ Len(tree[3]) > maxClust
  /\ max_length_of(tree[3][Len(tree[3])].prototype)
       = max_length_of(tree[3][maxClust].prototype)

C15_PrepareIdempotent ==
  Len(prepared) = 2 => prepared[2] = prepared[1]

\* the number of equivalents the group generates from a prototype
GeneratedSize(clust) == Len(new_orbit(clust, factor_group).equivalents)

\* C16: generate_orbitree_from_proto_file stops with the fatal error at the
\* first prototype whose generated number of equivalents differs from the
\* number the file declares, and reaches sort() and get_index() only when
\* every declared number equals the generated one.
C16_ProtoCountMismatchFatal ==
  /\ pc = "p_done" =>
       /\ \A k \in DOMAIN file : file[k].n_equiv = GeneratedSize(file[k].clust)
       /\ Norbits = Len(file)
       /\ Norbits = OrbitsBefore(tree, Len(tree))
  /\ pc = "p_exit" =>
       /\ file[i + 1].n_equiv # GeneratedSize(file[i + 1].clust)
       /\ \A k \in 1..i : file[k].n_equiv = GeneratedSize(file[k].clust)
  /\ (pc = "p_orbit" /\ i >= 1) =>
       \A k \in 1..i : file[k].n_equiv = GeneratedSize(file[k].clust)

\* the second prototype of the file declared 1 equivalent where the group
\* generates more, after a first prototype whose count matched
C16_Witness ==
  /\ pc = "p_exit"
  /\ i = 1
  /\ file[2].n_equiv = 1
  /\ GeneratedSize(file[2].clust) > 1

\* the sites of the phenomenal cluster
PhenomSites == Range(phenom_clust)

\* C17: with include_phenom_clust_sites = false no site of the phenomenal
\* cluster is in the candidate grid nor in the prototype or an equivalent of
\* any orbit of the local tree; with include_phenom_clust_sites = true a
\* phenomenal site is a candidate whenever a site at its place would be.
C17_PhenomSitesExcluded ==
  pc # "l_start" =>
    /\ ~include_phenom_clust_sites =>
         /\ Range(gridstruc) \cap PhenomSites = {}
         /\ \A p \in AllOrbits :
              /\ Range(tree[p[1]][p[2]].prototype) \cap PhenomSites = {}
              /\ \A e \in Range(tree[p[1]][p[2]].equivalents) :
                   Range(e) \cap PhenomSites = {}
    /\ include_phenom_clust_sites =>
         \A s \in PhenomSites :
           ( /\ PrimOccupants[s[3] + 1] >= min_num_components
             /\ \A t \in PhenomSites : dist(s, t) < Max(Range(max_length)) )
           => s \in Range(gridstruc)

\* a local tree with pair orbits around a point that the radius would have
\* admitted as a candidate, built without the phenomenal sites
C17_Witness ==
  /\ pc = "l_done"
  /\ ~include_phenom_clust_sites
  /\ phenom_clust = << <<0, 0, 0>> >>
  /\ max_num_sites = 2
  /\ Len(tree[3]) >= 2
  /\ Max(Range(max_length)) > 0

\* C19 (as claimed): generate_local_orbitree never returns normally with a
\* branch below the requested max_num_sites left without orbits.
C19_LocalNeverTruncated ==
  pc = "l_done" => \A b \in 1..max_num_sites : tree[b] # <<>>

\* the hops the claim admits: an in_tree prototype of two or more sites,
\* decorated with exactly one vacancy, and a permutation that moves every
\* site and that allowed() accepts
AdmissibleHops ==
  UNION { LET proto == in_tree[p[1]][p[2]]
          IN UNION { { HopCluster(decorate(proto, d), q) :
                         q \in {r \in PermSet(Len(proto)) :
                                  /\ \A k \in DOMAIN r : r[k] # k
                                  /\ allowed(decorate(proto, d), r)} } :
                     d \in {e \in Range(full_decor_map(proto)) :
                              Va_count(decorate(proto, e)) = 1} } :
          p \in {q \in (DOMAIN in_tree) \X (1..2) :
                   q[1] >= 3 /\ q[2] <= Len(in_tree[q[1]])} }

\* C18: every orbit of the tree of generate_hop_orbitree holds a hop built
\* from an in_tree prototype of at least two sites decorated with exactly
\* one vacancy and a permutation without fixed point that allowed() accepts;
\* branches 0 and 1 are empty; no two orbits of a branch are equivalent.
C18_HopOrbits ==
  pc \in {"h_orbit", "h_decor", "h_perm", "h_done"} =>
    /\ \A b \in DOMAIN tree : b <= 2 => tree[b] = <<>>
    /\ \A p \in AllOrbits :
         \E h \in AdmissibleHops : hop_orbit_contains(tree[p[1]][p[2]], h)
    /\ \A b \in DOMAIN tree : \A j, k \in DOMAIN tree[b] :
         j # k => ~hop_orbit_contains(tree[b][j], tree[b][k].prototype)

\* hops over pairs and over a triplet were found
C18_Witness ==
  /\ pc = "h_done"
  /\ Len(tree) = 4
  /\ Len(tree[3]) >= 1
  /\ Len(tree[4]) >= 2

C21_AllPairsTested ==
  (pc = "c_pair_orbit" /\ no >= size_np(tree, np - 1) /\ ~(numClust < maxClust)) =>
    \A o \in DOMAIN tree[2], s \in DOMAIN gridstruc :
      LET c == within(Append(tree[2][o].prototype, gridstruc[s]))
      IN min_length_of(c) > min_length => contains(tree, c)

\* C22: when a generator has returned, every orbit's stored linear index is
\* the index of its position in the tree: the number of orbits of the
\* earlier branches plus its place in its branch.
C22_IndexAfterSort ==
  pc \in {"done", "ic_done", "l_done", "h_done", "p_done"} =>
    \A p \in AllOrbits :
      tree[p[1]][p[2]].index = OrbitsBefore(tree, p[1] - 1) + (p[2] - 1)

\* C23: after spatial_prepare(X) on a non-empty X, the prim-periodic result
\* is X translated by minus the unit cell of its anchor site: the anchor is
\* in the origin cell, sublattices and displacements are kept, and the
\* recorded transform is that translation; the supercell-periodic result is
\* X under one lattice translation that puts the anchor inside the
\* supercell, and that translation is the recorded transform.
C23_SpatialPrepareTranslates ==
  (pc = "spatial_prepared" /\ obj # <<>>
     /\ variant \in {"PrimPeriodic", "ScelPeriodic"}) =>
    LET r == spatial_prepare_impl(variant, obj)
        t == m_spatial_transform
    IN /\ r = Translate(obj, t[1], t[2])
       /\ \A k \in DOMAIN obj : r[k][3] = obj[k][3]
       /\ \A j, k \in DOMAIN obj :
            /\ r[j][1] - r[k][1] = obj[j][1] - obj[k][1]
            /\ r[j][2] - r[k][2] = obj[j][2] - obj[k][2]
       /\ variant = "PrimPeriodic" =>
            /\ position(r)[1] = 0 /\ position(r)[2] = 0
            /\ t = <<-position(obj)[1], -position(obj)[2]>>
       /\ variant = "ScelPeriodic" =>
            /\ position(r)[1] \in 0..(ScelSide - 1)
            /\ position(r)[2] \in 0..(ScelSide - 1)

\* a cluster anchored outside the origin cell was prepared
C23_Witness ==
  /\ pc = "spatial_prepared"
  /\ variant = "PrimPeriodic"
  /\ obj = << <<-1, 1, 1>>, <<0, 0, 0>> >>
  /\ m_spatial_transform = <<1, -1>>

\* C24: spatial_transform() read after spatial_prepare(X) is the transform
\* of that call: the identity for the aperiodic and within-supercell
\* variants, and for the periodic variants the identity when X is empty.
C24_TransformOfLastCall ==
  pc = "spatial_prepared" =>
    /\ variant \in {"Aperiodic", "WithinScel"} => m_spatial_transform = <<0, 0>>
    /\ obj = <<>> => m_spatial_transform = <<0, 0>>

\* C25: after generate_decorated_orbitree on an empty tree, branch 0 holds
\* exactly one orbit, every orbit of a branch np >= 1 is a decorated copy of
\* an in_tree prototype of np sites, and no two orbits of one branch are
\* symmetry-equivalent under the group.
C25_DecoratedTree ==
  (pc = "decorated" /\ first = <<>>) =>
    /\ Len(tree[1]) = 1
    /\ \A b \in 2..Len(tree) : \A j \in DOMAIN tree[b] :
         \E n \in DOMAIN in_tree[b] :
           LET proto == in_tree[b][n].prototype
               full == full_decor_map(proto)
           IN \E d \in DOMAIN full :
                hop_orbit_contains(tree[b][j],
                  HopCluster(decorate(proto, full[d]), [k \in DOMAIN proto |-> k]))
    /\ \A b \in DOMAIN tree : \A j, k \in DOMAIN tree[b] :
         j # k => tree[b][j].equivalents # tree[b][k].equivalents

\* C26: after A = B the object holds exactly B's branches and orbits,
\* whatever it held before and however often the assignment is made.
C26_AssignCopies ==
  pc = "assigned" => tree = in_tree

\* C27: after read_CSPECS has read a Radius specification with at least one
\* size line, max_length has max_num_sites + 1 entries and the entry of
\* every size listed in the stream is the radius of that size's line.
C27_RadiiBySize ==
  (pc = "cs_done" /\ file.header = "R" /\ file.lines # <<>>) =>
    /\ Len(max_length) = max_num_sites + 1
    /\ \A k \in DOMAIN file.lines :
         /\ file.lines[k].size <= max_num_sites
         /\ max_length[file.lines[k].size + 1] = file.lines[k].radius

\* C28: with min_length >= 0 no prototype that generate_orbitree accepts
\* into a branch np >= 2 holds the same site twice, although the grid holds
\* the sites of the parent prototypes.
C28_NoRepeatedSite ==
  (mode \in {"radius", "count"} /\ min_length >= 0) =>
    \A p \in AllOrbits :
      p[1] >= 3 =>
        \A j, k \in DOMAIN tree[p[1]][p[2]].prototype :
          j # k => tree[p[1]][p[2]].prototype[j] # tree[p[1]][p[2]].prototype[k]

\* a pair was accepted from a grid that holds the site of its parent point
C28_Witness ==
  /\ mode = "radius" /\ min_length = 0 /\ pc = "done"
  /\ Len(tree) >= 3 /\ tree[3] # <<>>
  /\ \E o \in DOMAIN tree[2] : \E s \in DOMAIN gridstruc :
       gridstruc[s] = tree[2][o].prototype[1]

\* C29: after get_hierarchy() the subcluster table has one row per orbit,
\* subcluster.size() == Norbits, and the row at the linear index of every
\* orbit (i, j) exists, whatever the shape of the tree.
C29_OneRowPerOrbit ==
  pc = "hierarchy" =>
    /\ Len(subcluster) = Norbits
    /\ \A p \in AllOrbits : index[p[1]][p[2]] + 1 \in DOMAIN subcluster

\* C30: find(test_orbit) returns the linear index get_index() gave the
\* equal orbit of the tree, and the number of orbits of the tree when no
\* orbit is equal.
C30_FindOrbitIndex ==
  pc = "p_found" =>
    LET equal == {p \in AllOrbits :
                    orbit_contains(tree[p[1]][p[2]], prepare(find_arg))}
    IN IF equal = {} THEN find_ret = Norbits
       ELSE \E p \in equal : find_ret = index[p[1]][p[2]]

====
